---------------------------- MODULE Spec2Model ----------------------------
(***************************************************************************)
(* A model of the simple assembler (sasm) and the simple virtual machine   *)
(* (svm).  The assembler is a two-pass translator from source lines to a   *)
(* byte stream; the virtual machine loads a byte stream at address 0 and   *)
(* runs a fetch-decode-execute loop over four 16-bit registers, a 16-bit   *)
(* program counter and three flags.                                        *)
(*                                                                         *)
(* Text is modelled at the level of characters: a source line is a         *)
(* sequence of one-character strings, and strip_comments, trim_whitespace, *)
(* the sscanf patterns and atoi are operators over such sequences.         *)
(***************************************************************************)
EXTENDS Integers, Sequences, FiniteSets, TLC

VARIABLES
  \* ---- sasm ----
  lines,                  \* char lines[1024][MAX_LINE_LENGTH], as read by main
  pass,                   \* where main is: "first", "second", "done", "exit1"
  i,                      \* the loop index of the running pass (0-based)
  location_counter,       \* first_pass's running byte offset
  symbol_table,           \* Label symbol_table[MAX_LABELS], the first label_count entries
  instruction_addresses,  \* the entries first_pass has assigned
  asm_out,                \* the bytes written to sasm's standard output
  asm_err,                \* the diagnostic of the exit(1) taken, "" if none
  source,                 \* history: the lines as they were read
  counted,                \* history: per line, the bytes first_pass added for it
  label_line,             \* history: per symbol_table entry, the line it came from
  emitted,                \* history: per line, where second_pass wrote and how much
  \* ---- svm ----
  stdin,                  \* the byte stream on svm's standard input
  cpu,                    \* CPU cpu
  memory,                 \* uint8_t memory[MEMORY_SIZE]: the cells that are not 0
  vm_out,                 \* the items written to svm's standard output
  status,                 \* "init", "running", "halted", "exit1", "fault"
  vm_err,                 \* the diagnostic of the exit(1) taken, "" if none
  cycles,                 \* history: iterations of processor_cycle's loop so far
  stored                  \* history: the words stored and not overwritten since, by address

asm_vars == <<lines, pass, i, location_counter, symbol_table,
              instruction_addresses, asm_out, asm_err, source, counted,
              label_line, emitted>>
vm_vars == <<stdin, cpu, memory, vm_out, status, vm_err, cycles, stored>>
vars == <<asm_vars, vm_vars>>

---------------------------------------------------------------------------
(* svm.h *)

MEMORY_SIZE == 32768

HALT == 49
LOAD == 96
LOADI == 97
STORE == 98
STOREI == 99
JMP == 100
JMPZ == 101
JMPN == 102
JMPO == 103
ADD == 104
ADDR == 105
SUB == 106
SUBR == 107
OUT == 108
OUTC == 109
OUTR == 110
OUTRC == 111
OUTI == 112
OUTIC == 113

A1 == 3
A2 == 2
R1 == 1
R2 == 0

MAX_LABELS == 256

---------------------------------------------------------------------------
(* Fixed-width integers and bit operations *)

U8(x) == x % 256
U16(x) == x % 65536

RECURSIVE BitAnd(_, _)
BitAnd(a, b) ==
  IF a = 0 \/ b = 0 THEN 0
  ELSE (IF a % 2 = 1 /\ b % 2 = 1 THEN 1 ELSE 0) + 2 * BitAnd(a \div 2, b \div 2)

RECURSIVE BitOr(_, _)
BitOr(a, b) ==
  IF a = 0 THEN b
  ELSE IF b = 0 THEN a
  ELSE (IF a % 2 = 1 \/ b % 2 = 1 THEN 1 ELSE 0) + 2 * BitOr(a \div 2, b \div 2)

RECURSIVE Pow2(_)
Pow2(n) == IF n = 0 THEN 1 ELSE 2 * Pow2(n - 1)

ShiftLeft(a, n) == a * Pow2(n)
ShiftRight(a, n) == a \div Pow2(n)

Min(S) == CHOOSE m \in S : \A n \in S : m <= n

---------------------------------------------------------------------------
(* Text: the C library calls sasm makes, over sequences of characters *)

IsSpace(c) == c \in {" ", "\t", "\n", "\r"}
IsDigit(c) == c \in {"0", "1", "2", "3", "4", "5", "6", "7", "8", "9"}
DigitVal(c) ==
  CASE c = "0" -> 0 [] c = "1" -> 1 [] c = "2" -> 2 [] c = "3" -> 3 [] c = "4" -> 4
    [] c = "5" -> 5 [] c = "6" -> 6 [] c = "7" -> 7 [] c = "8" -> 8 [] c = "9" -> 9

\* The characters of s from position n on.
From(s, n) == SubSeq(s, n, Len(s))

\* The length of the longest prefix of s made of white space, of characters
\* that are not white space, and of characters that are not a comma.
SpaceRun(s) ==
  LET stops == {k \in 1..Len(s) : ~IsSpace(s[k])}
  IN  IF stops = {} THEN Len(s) ELSE Min(stops) - 1

WordRun(s) ==
  LET stops == {k \in 1..Len(s) : IsSpace(s[k])}
  IN  IF stops = {} THEN Len(s) ELSE Min(stops) - 1

NoCommaRun(s) ==
  LET stops == {k \in 1..Len(s) : s[k] = ","}
  IN  IF stops = {} THEN Len(s) ELSE Min(stops) - 1

SkipSpace(s) == From(s, SpaceRun(s) + 1)

\* One sscanf "%s" directive: skip white space, then read the characters up
\* to the next white space.  ok is FALSE when no character is left to read.
ScanWord(s) ==
  LET t == SkipSpace(s)
      n == WordRun(t)
  IN  [ok |-> n > 0, val |-> SubSeq(t, 1, n), rest |-> From(t, n + 1)]

\* int atoi(const char *): optional white space, optional sign, digits.
RECURSIVE DigitsValue(_, _)
DigitsValue(s, acc) ==
  IF s = <<>> \/ ~IsDigit(Head(s)) THEN acc
  ELSE DigitsValue(Tail(s), 10 * acc + DigitVal(Head(s)))

atoi(s) ==
  LET t == SkipSpace(s)
  IN  IF t /= <<>> /\ Head(t) = "-" THEN 0 - DigitsValue(Tail(t), 0)
      ELSE IF t /= <<>> /\ Head(t) = "+" THEN DigitsValue(Tail(t), 0)
      ELSE DigitsValue(t, 0)

strip_comments(line) ==
  LET marks == {k \in 1..Len(line) : line[k] = "#"}
  IN  IF marks = {} THEN line ELSE SubSeq(line, 1, Min(marks) - 1)

RECURSIVE DropTrailingSpace(_)
DropTrailingSpace(s) ==
  IF Len(s) > 1 /\ IsSpace(s[Len(s)]) THEN DropTrailingSpace(SubSeq(s, 1, Len(s) - 1))
  ELSE s

trim_whitespace(str) == DropTrailingSpace(SkipSpace(str))

\* The line as both passes look at it: comments stripped, then trimmed.
Clean(line) == trim_whitespace(strip_comments(line))

---------------------------------------------------------------------------
(* The mnemonics and register names, as text *)

S_HALT == <<"H", "A", "L", "T">>
S_LOAD == <<"L", "O", "A", "D">>
S_LOADI == <<"L", "O", "A", "D", "I">>
S_STORE == <<"S", "T", "O", "R", "E">>
S_STOREI == <<"S", "T", "O", "R", "E", "I">>
S_JMP == <<"J", "M", "P">>
S_JMPZ == <<"J", "M", "P", "Z">>
S_JMPN == <<"J", "M", "P", "N">>
S_JMPO == <<"J", "M", "P", "O">>
S_ADD == <<"A", "D", "D">>
S_ADDR == <<"A", "D", "D", "R">>
S_SUB == <<"S", "U", "B">>
S_SUBR == <<"S", "U", "B", "R">>
S_OUT == <<"O", "U", "T">>
S_OUTC == <<"O", "U", "T", "C">>
S_OUTR == <<"O", "U", "T", "R">>
S_OUTRC == <<"O", "U", "T", "R", "C">>
S_OUTI == <<"O", "U", "T", "I">>
S_OUTIC == <<"O", "U", "T", "I", "C">>
S_DATA == <<"D", "A", "T", "A">>

S_R1 == <<"R", "1">>
S_R2 == <<"R", "2">>
S_A1 == <<"A", "1">>
S_A2 == <<"A", "2">>

\* The first words that first_pass does not take for a label.
Reserved ==
  {S_LOAD, S_LOADI, S_STORE, S_STOREI, S_JMP, S_JMPZ, S_JMPN, S_JMPO, S_ADD,
   S_ADDR, S_SUB, S_SUBR, S_OUT, S_OUTC, S_OUTR, S_OUTRC, S_OUTI, S_OUTIC,
   S_HALT, S_DATA}

---------------------------------------------------------------------------
(* sasm: helpers *)

\* 0xFF stands for an invalid register name.
get_register_code(reg) ==
  IF reg = S_R1 THEN 1
  ELSE IF reg = S_R2 THEN 0
  ELSE IF reg = S_A1 THEN 3
  ELSE IF reg = S_A2 THEN 2
  ELSE 255

\* The two bytes putchar'ed, most significant first.
write16(value) == <<BitAnd(ShiftRight(value, 8), 255), BitAnd(value, 255)>>

\* find_label with a loop that stops one entry short of label_count.
LabelHits_SkipLast(table, label) ==
  {k \in 1..(Len(table) - 1) : table[k].label = label}

\* find_label: the indices of the entries that carry the name; the first
\* one is the match.
LabelHits(table, label) == {k \in 1..Len(table) : table[k].label = label}
LabelFound(table, label) == LabelHits(table, label) /= {}
LabelAddress(table, label) == table[Min(LabelHits(table, label))].address


---------------------------------------------------------------------------
(* sasm: first_pass *)

line_count == Len(lines)

\* sscanf(line_copy, "%s %[^\n]", label, rest_of_line): the number of fields
\* assigned, and the fields.
ScanLabel(line_copy) ==
  LET w == ScanWord(line_copy)
      r == SkipSpace(w.rest)
  IN  [count |-> IF ~w.ok THEN 0 ELSE IF r = <<>> THEN 1 ELSE 2,
       label |-> w.val, rest_of_line |-> r]

\* SizeLabelled with OUTC in the group of 2-byte instructions.
SizeLabelled_OutcShort(instruction) ==
  IF instruction = S_HALT THEN 1
  ELSE IF instruction \in {S_LOAD, S_STORE, S_JMP, S_JMPZ, S_JMPN, S_JMPO,
                           S_ADD, S_SUB, S_OUT} THEN 4
  ELSE IF instruction \in {S_LOADI, S_STOREI, S_ADDR, S_SUBR, S_OUTR, S_OUTRC,
                           S_OUTI, S_OUTIC, S_OUTC} THEN 2
  ELSE IF instruction = S_DATA THEN 2
  ELSE 0

\* The instruction size of the branch of a line with two fields; 0 stands
\* for the exit(1) of an unknown instruction.
SizeLabelled(instruction) ==
  IF instruction = S_HALT THEN 1
  ELSE IF instruction \in {S_LOAD, S_STORE, S_JMP, S_JMPZ, S_JMPN, S_JMPO,
                           S_ADD, S_SUB, S_OUT, S_OUTC} THEN 4
  ELSE IF instruction \in {S_LOADI, S_STOREI, S_ADDR, S_SUBR, S_OUTR, S_OUTRC,
                           S_OUTI, S_OUTIC} THEN 2
  ELSE IF instruction = S_DATA THEN 2
  ELSE 0

\* SizePlain counting an unknown word as two bytes.
SizePlain_UnknownAsData(instruction) ==
  IF instruction = S_HALT THEN 1
  ELSE IF instruction \in {S_LOAD, S_STORE, S_JMP, S_JMPZ, S_JMPN, S_JMPO,
                           S_ADD, S_SUB, S_OUT, S_OUTC} THEN 4
  ELSE 2

\* The instruction size of the branch of a line with one field.
SizePlain(instruction) ==
  IF instruction = S_DATA THEN 2
  ELSE IF instruction = S_HALT THEN 1
  ELSE IF instruction \in {S_LOAD, S_STORE, S_JMP, S_JMPZ, S_JMPN, S_JMPO,
                           S_ADD, S_SUB, S_OUT, S_OUTC} THEN 4
  ELSE IF instruction \in {S_LOADI, S_STOREI, S_ADDR, S_SUBR, S_OUTR, S_OUTRC,
                           S_OUTI, S_OUTIC} THEN 2
  ELSE 0

\* The test of add_label letting one more entry in.
TableFull_OffByOne(table) == Len(table) > MAX_LABELS

\* label_count >= MAX_LABELS, the test add_label exits on.
TableFull(table) == Len(table) >= MAX_LABELS

\* add_label storing the entry's index where the address belongs.
add_label_Index(table, label, address) ==
  Append(table, [label |-> label, address |-> Len(table)])

\* add_label: the table with the entry appended (the caller has checked
\* label_count < MAX_LABELS).
add_label(table, label, address) ==
  Append(table, [label |-> label, address |-> address])

AsmExit(msg) ==
  /\ pass' = "exit1"
  /\ asm_err' = msg

\* An iteration of first_pass on a line that is empty once cleaned.
FirstPassBlank ==
  /\ pass = "first"
  /\ i < line_count
  /\ Clean(lines[i + 1]) = <<>>
  /\ i' = i + 1
  /\ counted' = Append(counted, 0)
  /\ UNCHANGED <<lines, pass, location_counter, symbol_table,
                 instruction_addresses, asm_out, asm_err, source, label_line,
                 emitted, vm_vars>>

\* An iteration of first_pass on a line with a first word and more after it.
FirstPassTwoFields ==
  /\ pass = "first"
  /\ i < line_count
  /\ LET line_copy == Clean(lines[i + 1])
         f == ScanLabel(line_copy)
         is_label == f.label \notin Reserved
         stripped == IF is_label THEN f.rest_of_line ELSE line_copy
         instruction == ScanWord(stripped).val
         size == SizeLabelled(instruction)
     IN  /\ line_copy /= <<>>
         /\ f.count = 2
         /\ IF is_label /\ TableFull(symbol_table)
            THEN /\ AsmExit("Symbol table overflow.")
                 /\ UNCHANGED <<lines, i, location_counter, symbol_table,
                                instruction_addresses, counted, label_line>>
            ELSE /\ symbol_table' =
                      IF is_label
                      THEN add_label(symbol_table, f.label, location_counter)
                      ELSE symbol_table
                 /\ label_line' =
                      IF is_label THEN Append(label_line, i + 1) ELSE label_line
                 /\ instruction_addresses' =
                      (i :> location_counter) @@ instruction_addresses
                 /\ IF size = 0
                    THEN /\ AsmExit("Unknown instruction in first pass")
                         /\ UNCHANGED <<lines, i, location_counter, counted>>
                    ELSE /\ location_counter' = U16(location_counter + size)
                         /\ lines' = [lines EXCEPT ![i + 1] = stripped]
                         /\ counted' = Append(counted, size)
                         /\ i' = i + 1
                         /\ UNCHANGED <<pass, asm_err>>
  /\ UNCHANGED <<asm_out, source, emitted, vm_vars>>

\* An iteration of first_pass on a line that is a single word.
FirstPassOneField ==
  /\ pass = "first"
  /\ i < line_count
  /\ LET line_copy == Clean(lines[i + 1])
         f == ScanLabel(line_copy)
         instruction == ScanWord(line_copy).val
         size == SizePlain(instruction)
     IN  /\ line_copy /= <<>>
         /\ f.count /= 2
         /\ instruction_addresses' =
              (i :> location_counter) @@ instruction_addresses
         /\ IF size = 0
            THEN /\ AsmExit("Unknown instruction in first pass")
                 /\ UNCHANGED <<i, location_counter, counted>>
            ELSE /\ location_counter' = U16(location_counter + size)
                 /\ counted' = Append(counted, size)
                 /\ i' = i + 1
                 /\ UNCHANGED <<pass, asm_err>>
  /\ UNCHANGED <<lines, symbol_table, asm_out, source, label_line, emitted,
                 vm_vars>>

\* first_pass returns and main calls second_pass.
FirstPassReturn ==
  /\ pass = "first"
  /\ i = line_count
  /\ pass' = "second"
  /\ i' = 0
  /\ UNCHANGED <<lines, location_counter, symbol_table, instruction_addresses,
                 asm_out, asm_err, source, counted, label_line, emitted,
                 vm_vars>>

---------------------------------------------------------------------------
(* sasm: second_pass *)

\* sscanf(line_copy, " %s %[^,], %s", instruction, operand1, operand2)
ScanTwoOperands(line_copy) ==
  LET w == ScanWord(line_copy)
      b == SkipSpace(w.rest)
      n == NoCommaRun(b)
      c == From(b, n + 1)            \* empty, or starting with the comma
      o2 == IF c = <<>> THEN ScanWord(<<>>) ELSE ScanWord(Tail(c))
  IN  [count |-> IF ~w.ok THEN 0
                 ELSE IF n = 0 THEN 1
                 ELSE IF c = <<>> \/ ~o2.ok THEN 2
                 ELSE 3,
       instruction |-> w.val, operand1 |-> SubSeq(b, 1, n), operand2 |-> o2.val]

\* sscanf(line_copy, " %s %s", instruction, operand1)
ScanOneOperand(line_copy) ==
  LET w == ScanWord(line_copy)
      o1 == ScanWord(w.rest)
  IN  [count |-> IF ~w.ok THEN 0 ELSE IF ~o1.ok THEN 1 ELSE 2,
       instruction |-> w.val, operand1 |-> o1.val]

\* sscanf(line_copy, " %s", instruction)
ScanNoOperand(line_copy) ==
  LET w == ScanWord(line_copy)
  IN  [count |-> IF w.ok THEN 1 ELSE 0, instruction |-> w.val]

\* An operand that may be a label: the label's address when find_label finds
\* it, (uint16_t)atoi(operand) otherwise.
LabelOrLiteral(table, operand) ==
  IF LabelFound(table, operand) THEN LabelAddress(table, operand)
  ELSE U16(atoi(operand))

Opcode2(instruction) ==
  IF instruction = S_LOAD THEN LOAD
  ELSE IF instruction = S_ADD THEN ADD
  ELSE IF instruction = S_SUB THEN SUB
  ELSE IF instruction = S_STORE THEN STORE
  ELSE IF instruction = S_LOADI THEN LOADI
  ELSE IF instruction = S_STOREI THEN STOREI
  ELSE IF instruction = S_ADDR THEN ADDR
  ELSE IF instruction = S_SUBR THEN SUBR
  ELSE 0

Opcode1(instruction) ==
  IF instruction = S_OUTR THEN OUTR
  ELSE IF instruction = S_OUTRC THEN OUTRC
  ELSE IF instruction = S_OUTI THEN OUTI
  ELSE IF instruction = S_OUTIC THEN OUTIC
  ELSE IF instruction = S_OUT THEN OUT
  ELSE IF instruction = S_OUTC THEN OUTC
  ELSE IF instruction = S_JMP THEN JMP
  ELSE IF instruction = S_JMPZ THEN JMPZ
  ELSE IF instruction = S_JMPN THEN JMPN
  ELSE IF instruction = S_JMPO THEN JMPO
  ELSE 0

\* PackRegisters with the two fields in each other's place.
PackRegisters_Swapped(reg_code1, reg_code2) ==
  U8(BitOr(ShiftLeft(reg_code1, 6), BitAnd(reg_code2, 3)))

\* The packed register byte of LOADI, STOREI, ADDR and SUBR.
PackRegisters(reg_code1, reg_code2) ==
  U8(BitOr(ShiftLeft(reg_code2, 6), BitAnd(reg_code1, 3)))

Encoded(bytes) == [err |-> "", bytes |-> bytes]
Refused(msg) == [err |-> msg, bytes |-> <<>>]

\* The branch of a line with an instruction and two operands: the bytes
\* written, or the diagnostic of the exit(1).
EncodeTwoOperands(table, instruction, operand1, operand2) ==
  IF instruction \in {S_LOAD, S_ADD, S_SUB, S_STORE}
  THEN LET reg_code == get_register_code(operand1)
       IN  IF reg_code = 255 THEN Refused("Invalid register")
           ELSE Encoded(<<Opcode2(instruction), reg_code>>
                        \o write16(LabelOrLiteral(table, operand2)))
  ELSE IF instruction \in {S_LOADI, S_STOREI, S_ADDR, S_SUBR}
  THEN LET reg_code1 == get_register_code(operand1)
           reg_code2 == get_register_code(operand2)
       IN  IF reg_code1 = 255 \/ reg_code2 = 255
           THEN Refused("Invalid register in instruction")
           ELSE Encoded(<<Opcode2(instruction),
                          PackRegisters(reg_code1, reg_code2)>>)
  ELSE Refused("Unknown instruction with two operands")

\* EncodeOneOperand with the jumps falling back to atoi as OUT and DATA do.
EncodeOneOperand_JumpLiteral(table, instruction, operand1) ==
  IF instruction \in {S_OUTR, S_OUTRC, S_OUTI, S_OUTIC}
  THEN LET reg_code == get_register_code(operand1)
       IN  IF reg_code = 255 THEN Refused("Invalid register")
           ELSE Encoded(<<Opcode1(instruction), reg_code>>)
  ELSE IF instruction \in {S_OUT, S_OUTC, S_JMP, S_JMPZ, S_JMPN, S_JMPO}
  THEN Encoded(<<Opcode1(instruction), 0>>
               \o write16(LabelOrLiteral(table, operand1)))
  ELSE IF instruction = S_DATA
  THEN Encoded(write16(LabelOrLiteral(table, operand1)))
  ELSE Refused("Unknown instruction with one operand")

\* The branch of a line with an instruction and one operand.
EncodeOneOperand(table, instruction, operand1) ==
  IF instruction \in {S_OUTR, S_OUTRC, S_OUTI, S_OUTIC}
  THEN LET reg_code == get_register_code(operand1)
       IN  IF reg_code = 255 THEN Refused("Invalid register")
           ELSE Encoded(<<Opcode1(instruction), reg_code>>)
  ELSE IF instruction \in {S_OUT, S_OUTC}
  THEN Encoded(<<Opcode1(instruction), 0>>
               \o write16(LabelOrLiteral(table, operand1)))
  ELSE IF instruction = S_DATA
  THEN Encoded(write16(LabelOrLiteral(table, operand1)))
  ELSE IF instruction \in {S_JMP, S_JMPZ, S_JMPN, S_JMPO}
  THEN IF ~LabelFound(table, operand1) THEN Refused("Error: Undefined label")
       ELSE Encoded(<<Opcode1(instruction), 0>>
                    \o write16(LabelAddress(table, operand1)))
  ELSE Refused("Unknown instruction with one operand")

\* The branch of a line with an instruction alone, and the last else.
EncodeNoOperand(count, instruction) ==
  IF count = 1
  THEN IF instruction = S_HALT THEN Encoded(<<HALT>>)
       ELSE Refused("Unknown instruction")
  ELSE Refused("Invalid instruction format")

\* SecondPassOutcome losing what was written when the process exits.
SecondPassOutcome_Discarding(e) ==
  IF e.err /= ""
  THEN /\ AsmExit(e.err)
       /\ asm_out' = <<>>
       /\ UNCHANGED <<i, emitted>>
  ELSE /\ asm_out' = asm_out \o e.bytes
       /\ emitted' = Append(emitted, [at |-> Len(asm_out), n |-> Len(e.bytes)])
       /\ i' = i + 1
       /\ UNCHANGED <<pass, asm_err>>

\* What second_pass does with the outcome of a line: the bytes go to the
\* standard output and the loop goes on, or the process exits.
SecondPassOutcome(e) ==
  IF e.err /= ""
  THEN /\ AsmExit(e.err)
       /\ UNCHANGED <<i, asm_out, emitted>>
  ELSE /\ asm_out' = asm_out \o e.bytes
       /\ emitted' = Append(emitted, [at |-> Len(asm_out), n |-> Len(e.bytes)])
       /\ i' = i + 1
       /\ UNCHANGED <<pass, asm_err>>

SecondPassBlank ==
  /\ pass = "second"
  /\ i < line_count
  /\ Clean(lines[i + 1]) = <<>>
  /\ i' = i + 1
  /\ emitted' = Append(emitted, [at |-> Len(asm_out), n |-> 0])
  /\ UNCHANGED <<lines, pass, location_counter, symbol_table,
                 instruction_addresses, asm_out, asm_err, source, counted,
                 label_line, vm_vars>>

SecondPassTwoOperands ==
  /\ pass = "second"
  /\ i < line_count
  /\ LET line_copy == Clean(lines[i + 1])
         f == ScanTwoOperands(line_copy)
     IN  /\ line_copy /= <<>>
         /\ f.count = 3
         /\ SecondPassOutcome(EncodeTwoOperands(symbol_table, f.instruction,
                                                f.operand1, f.operand2))
  /\ UNCHANGED <<lines, location_counter, symbol_table, instruction_addresses,
                 source, counted, label_line, vm_vars>>

SecondPassOneOperand ==
  /\ pass = "second"
  /\ i < line_count
  /\ LET line_copy == Clean(lines[i + 1])
         f == ScanOneOperand(line_copy)
     IN  /\ line_copy /= <<>>
         /\ ScanTwoOperands(line_copy).count /= 3
         /\ f.count = 2
         /\ SecondPassOutcome(EncodeOneOperand(symbol_table, f.instruction,
                                               f.operand1))
  /\ UNCHANGED <<lines, location_counter, symbol_table, instruction_addresses,
                 source, counted, label_line, vm_vars>>

SecondPassNoOperand ==
  /\ pass = "second"
  /\ i < line_count
  /\ LET line_copy == Clean(lines[i + 1])
         f == ScanNoOperand(line_copy)
     IN  /\ line_copy /= <<>>
         /\ ScanTwoOperands(line_copy).count /= 3
         /\ ScanOneOperand(line_copy).count /= 2
         /\ SecondPassOutcome(EncodeNoOperand(f.count, f.instruction))
  /\ UNCHANGED <<lines, location_counter, symbol_table, instruction_addresses,
                 source, counted, label_line, vm_vars>>

\* second_pass returns and main returns 0.
SecondPassReturn ==
  /\ pass = "second"
  /\ i = line_count
  /\ pass' = "done"
  /\ UNCHANGED <<lines, i, location_counter, symbol_table,
                 instruction_addresses, asm_out, asm_err, source, counted,
                 label_line, emitted, vm_vars>>

---------------------------------------------------------------------------
(* sasm: the source programs checked *)

MaxLines == 2

T_loop == <<"l", "o", "o", "p">>
T_end == <<"e", "n", "d">>
T_x == <<"x">>
T_5 == <<"5">>
T_7 == <<"7">>
T_65 == <<"6", "5">>
T_100 == <<"1", "0", "0">>
T_65535 == <<"6", "5", "5", "3", "5">>
T_70000 == <<"7", "0", "0", "0", "0">>
T_minus1 == <<"-", "1">>
T_12ab == <<"1", "2", "a", "b">>

\* "m", "m a", "m a, b" and "l rest"
Line0(m) == m
Line1(m, a) == m \o <<" ">> \o a
Line2(m, a, b) == m \o <<" ">> \o a \o <<",", " ">> \o b
Labelled(l, rest) == l \o <<" ">> \o rest

BlankLines ==
  {<<>>, <<" ", "#", " ">> \o S_HALT}

PlainLines ==
  {Line0(S_HALT),
   Line0(S_HALT) \o <<" ", "#", "x">>,
   Line2(S_LOAD, S_R1, T_5), Line2(S_LOAD, S_A1, T_loop),
   Line2(S_STORE, S_R2, T_100),
   Line2(S_ADD, S_R1, T_65535), Line2(S_SUB, S_R2, T_minus1),
   Line2(S_LOADI, S_R2, S_A1), Line2(S_STOREI, S_R1, S_A2),
   Line2(S_ADDR, S_R1, S_R2), Line2(S_SUBR, S_R2, S_R1),
   Line1(S_JMP, T_loop), Line1(S_JMPZ, T_loop), Line1(S_JMPN, T_7),
   Line1(S_JMPO, T_end), Line1(S_JMP, T_5),
   Line1(S_OUT, T_7), Line1(S_OUT, T_x), Line1(S_OUTC, T_65),
   Line1(S_OUTR, S_R1), Line1(S_OUTRC, S_R2), Line1(S_OUTI, S_A1),
   Line1(S_OUTIC, S_A2),
   Line1(S_DATA, T_70000), Line1(S_DATA, T_loop), Line1(S_DATA, T_12ab)}

LabelledLines ==
  {Labelled(T_loop, Line0(S_HALT)),
   Labelled(T_loop, Line2(S_LOAD, S_R1, T_5)),
   Labelled(T_loop, Line1(S_JMP, T_loop)),
   Labelled(T_loop, Line1(S_DATA, T_5)),
   Labelled(T_7, Line0(S_HALT)),
   Labelled(T_end, Line2(S_ADDR, S_R1, S_R2))}

\* Lines one of the passes refuses.
RefusedLines ==
  {Line0(T_loop),                          \* a label alone
   Line1(S_LOAD, S_R1),                    \* an operand missing
   Line2(S_LOAD, T_x, T_5),                \* not a register
   Line2(T_x, S_R1, T_5),                  \* a label and no instruction
   Line2(S_HALT, S_R1, S_R2),              \* operands that are not wanted
   Line1(S_OUTR, T_5),
   S_LOAD \o <<" ">> \o S_R1 \o <<" ", ",", " ">> \o T_5,   \* "LOAD R1 , 5"
   Line0(S_DATA)}

AsmLines == BlankLines \cup PlainLines \cup LabelledLines \cup RefusedLines

\* Names for the labels of a long program: two letters, all different.
Letters ==
  <<"a", "b", "c", "d", "e", "f", "g", "h", "i", "j", "k", "l", "m", "n", "o",
    "p", "q">>

LabelName(n) ==
  <<Letters[((n - 1) \div Len(Letters)) + 1],
    Letters[((n - 1) % Len(Letters)) + 1]>>

\* n lines "name HALT", each with a label of its own.
ManyLabels(n) == [k \in 1..n |-> Labelled(LabelName(k), Line0(S_HALT))]

\* Programs that fill the symbol table and overfill it by one label, with
\* the programs of one line.
FullTablePrograms ==
  {ManyLabels(MAX_LABELS), ManyLabels(MAX_LABELS + 1)} \cup [1..1 -> AsmLines]

SourcePrograms == UNION {[1..k -> AsmLines] : k \in 0..MaxLines}

---------------------------------------------------------------------------
(* svm: state *)

ZeroCPU ==
  [REG1 |-> 0, REG2 |-> 0, ADDR1 |-> 0, ADDR2 |-> 0, PC |-> 0,
   Z |-> 0, N |-> 0, O |-> 0]

\* A memory with every cell 0.  A memory is a function from the addresses of
\* the cells that are not 0 to their bytes.
ZeroMemory == [a \in {} |-> 0]

\* The byte of cell a, for a < MEMORY_SIZE.
Cell(mem, a) == IF a \in DOMAIN mem THEN mem[a] ELSE 0

\* memory[a] = b, for a < MEMORY_SIZE.
SetCell(mem, a, b) ==
  IF b = 0 THEN [c \in DOMAIN mem \ {a} |-> mem[c]]
  ELSE [c \in DOMAIN mem \cup {a} |-> IF c = a THEN b ELSE mem[c]]

\* A byte stream: its length and, by offset from 0, its bytes that are not 0.
EmptyStream == [len |-> 0, bytes |-> ZeroMemory]

NoStores == [a \in {} |-> 0]

\* svm not started: nothing on its input.
VmIdle ==
  /\ stdin = EmptyStream
  /\ cpu = ZeroCPU
  /\ memory = ZeroMemory
  /\ vm_out = <<>>
  /\ status = "init"
  /\ vm_err = ""
  /\ cycles = 0
  /\ stored = NoStores

---------------------------------------------------------------------------
(* sasm: specification *)

\* main has read the lines of its standard input; first_pass is about to run.
AsmInit ==
  /\ lines \in SourcePrograms
  /\ source = lines
  /\ pass = "first"
  /\ i = 0
  /\ location_counter = 0
  /\ symbol_table = <<>>
  /\ instruction_addresses = [k \in {} |-> 0]
  /\ asm_out = <<>>
  /\ asm_err = ""
  /\ counted = <<>>
  /\ label_line = <<>>
  /\ emitted = <<>>
  /\ VmIdle

AsmNext ==
  \/ FirstPassBlank
  \/ FirstPassTwoFields
  \/ FirstPassOneField
  \/ FirstPassReturn
  \/ SecondPassBlank
  \/ SecondPassTwoOperands
  \/ SecondPassOneOperand
  \/ SecondPassNoOperand
  \/ SecondPassReturn

SpecAsm == AsmInit /\ [][AsmNext]_vars

\* sasm on the programs that fill the symbol table.
TableInit ==
  /\ lines \in FullTablePrograms
  /\ source = lines
  /\ pass = "first"
  /\ i = 0
  /\ location_counter = 0
  /\ symbol_table = <<>>
  /\ instruction_addresses = [k \in {} |-> 0]
  /\ asm_out = <<>>
  /\ asm_err = ""
  /\ counted = <<>>
  /\ label_line = <<>>
  /\ emitted = <<>>
  /\ VmIdle

SpecTable == TableInit /\ [][AsmNext]_vars

---------------------------------------------------------------------------
(* sasm: properties *)

\* A line second_pass has written, by its index from 1: its text as
\* second_pass read it, its first word, and the bytes written for it.
Done(k) == k \in 1..Len(emitted)
TextOf(k) == Clean(lines[k])
MnemonicOf(k) == ScanWord(TextOf(k)).val
BytesOf(k) == SubSeq(asm_out, emitted[k].at + 1, emitted[k].at + emitted[k].n)
IsBlank(k) == Clean(source[k]) = <<>>

\* The encoded length of each mnemonic, from the instruction table.
TableLength(m) ==
  IF m = S_HALT THEN 1
  ELSE IF m \in {S_LOAD, S_STORE, S_ADD, S_SUB, S_JMP, S_JMPZ, S_JMPN, S_JMPO,
                 S_OUT, S_OUTC} THEN 4
  ELSE 2

BigEndian(v) == <<v \div 256, v % 256>>

\* C1: the bytes first_pass adds to the location counter for a line equal the
\* bytes second_pass writes for it, and both equal the mnemonic's length in
\* the instruction table (1, 4 or 2); a DATA line is counted and written as
\* the two bytes of its value, with no opcode byte.
C1_LengthInvariant ==
  \A k \in 1..Len(emitted) :
    /\ emitted[k].n = counted[k]
    /\ ~IsBlank(k) =>
         /\ MnemonicOf(k) \in Reserved
         /\ emitted[k].n = TableLength(MnemonicOf(k))
    /\ (~IsBlank(k) /\ MnemonicOf(k) = S_DATA) =>
         BytesOf(k) = BigEndian(LabelOrLiteral(symbol_table,
                                               ScanOneOperand(TextOf(k)).operand1))

\* A 4-byte instruction followed by a DATA line, both written.
C1_Witness ==
  /\ pass = "done"
  /\ Len(emitted) = 2
  /\ MnemonicOf(1) = S_STORE /\ emitted[1].n = 4 /\ counted[1] = 4
  /\ MnemonicOf(2) = S_DATA /\ emitted[2].n = 2 /\ counted[2] = 2
  /\ BytesOf(2) = <<17, 112>>

\* C2: the address of each symbol table entry is the offset in the output of
\* the first byte written for the line that carries the label; a blank or
\* comment-only line gets no address and no byte.
C2_LabelAddress ==
  /\ \A e \in 1..Len(symbol_table) :
       Done(label_line[e]) => symbol_table[e].address = emitted[label_line[e]].at
  /\ \A k \in 1..Len(emitted) :
       IsBlank(k) => /\ emitted[k].n = 0
                     /\ counted[k] = 0
                     /\ (k - 1) \notin DOMAIN instruction_addresses
  /\ pass = "done" => Len(asm_out) = location_counter

\* A label on the second line, after a 4-byte instruction.
C2_Witness ==
  /\ pass = "done"
  /\ Len(symbol_table) = 1
  /\ symbol_table[1].label = T_loop
  /\ symbol_table[1].address = 4
  /\ label_line[1] = 2
  /\ Len(asm_out) = 5

\* The lines of the source that carry a label, as first_pass recognises one.
LabelLines ==
  {k \in 1..Len(source) :
     LET f == ScanLabel(Clean(source[k]))
     IN  f.count = 2 /\ f.label \notin Reserved}

Jumps == {S_JMP, S_JMPZ, S_JMPN, S_JMPO}

\* Line k, as second_pass reads it, is a jump with one operand.
IsJump(k) ==
  /\ TextOf(k) /= <<>>
  /\ ScanTwoOperands(TextOf(k)).count /= 3
  /\ ScanOneOperand(TextOf(k)).count = 2
  /\ ScanOneOperand(TextOf(k)).instruction \in Jumps

JumpTarget(k) == ScanOneOperand(TextOf(k)).operand1

\* first_pass has returned: second_pass is running, has returned or has exited.
SecondPassCalled ==
  \/ pass \in {"second", "done"}
  \/ /\ pass = "exit1"
     /\ asm_err \notin {"Unknown instruction in first pass", "Symbol table overflow."}

\* C3: the symbol table is complete before second_pass writes anything and
\* does not change while second_pass runs; a jump is written with the address
\* of its label, also when the label is on a later line.
C3_TableComplete ==
  /\ [](SecondPassCalled =>
         /\ Len(symbol_table) = Cardinality(LabelLines)
         /\ \A e \in 1..Len(symbol_table) :
              /\ label_line[e] \in LabelLines
              /\ symbol_table[e].label = ScanLabel(Clean(source[label_line[e]])).label)
  /\ [](asm_out /= <<>> => SecondPassCalled)
  /\ []((pass = "exit1" /\ asm_err = "Error: Undefined label") =>
          \A j \in LabelLines :
            ScanLabel(Clean(source[j])).label /= JumpTarget(i + 1))
  /\ [][SecondPassCalled => symbol_table' = symbol_table]_vars
  /\ [](\A k \in 1..Len(emitted) :
          IsJump(k) =>
            /\ LabelFound(symbol_table, JumpTarget(k))
            /\ SubSeq(BytesOf(k), 3, 4) =
                 BigEndian(LabelAddress(symbol_table, JumpTarget(k)))
            /\ \A e \in 1..Len(symbol_table) :
                 (e = Min(LabelHits(symbol_table, JumpTarget(k)))
                  /\ Done(label_line[e]))
                 => SubSeq(BytesOf(k), 3, 4) = BigEndian(emitted[label_line[e]].at))

\* A jump on the first line to a label on the second line, at offset 4.
C3_Witness ==
  /\ pass = "done"
  /\ Len(lines) = 2
  /\ IsJump(1)
  /\ label_line = <<2>>
  /\ symbol_table[1].label = JumpTarget(1)
  /\ asm_out = <<JMP, 0, 0, 4, HALT>>


\* Line k, as second_pass reads it, is a LOAD, STORE, ADD or SUB with a
\* register and a second operand.
TakesLiteral2(k) ==
  /\ ScanTwoOperands(TextOf(k)).count = 3
  /\ ScanTwoOperands(TextOf(k)).instruction \in {S_LOAD, S_STORE, S_ADD, S_SUB}
  /\ ScanTwoOperands(TextOf(k)).operand1 \in {S_R1, S_R2, S_A1, S_A2}

\* Line k, as second_pass reads it, is an OUT, OUTC or DATA with an operand.
TakesLiteral1(k) ==
  /\ ScanTwoOperands(TextOf(k)).count /= 3
  /\ ScanOneOperand(TextOf(k)).count = 2
  /\ ScanOneOperand(TextOf(k)).instruction \in {S_OUT, S_OUTC, S_DATA}

\* The step writes bytes ending in the 16-bit value of the operand: the
\* label's address on a symbol table hit, the literal integer otherwise.
WritesLabelOrLiteral(operand, n) ==
  /\ pass' = "second"
  /\ asm_err' = ""
  /\ Len(asm_out') = Len(asm_out) + n
  /\ SubSeq(asm_out', Len(asm_out') - 1, Len(asm_out')) =
       BigEndian(IF \E e \in 1..Len(symbol_table) : symbol_table[e].label = operand
                 THEN LabelAddress(symbol_table, operand)
                 ELSE atoi(operand) % 65536)

\* C4: in second_pass a jump whose operand is not in the symbol table exits
\* with the undefined-label error, whatever the operand; a LOAD, STORE, ADD,
\* SUB, OUT, OUTC or DATA whose operand is not in the symbol table is written
\* with the operand's literal integer value and never exits; a symbol table
\* hit wins over the literal in all of them.
C4_Asymmetry ==
  [][(pass = "second" /\ i < line_count /\ TextOf(i + 1) /= <<>>) =>
       LET k == i + 1
       IN  /\ IsJump(k) =>
                IF \E e \in 1..Len(symbol_table) : symbol_table[e].label = JumpTarget(k)
                THEN WritesLabelOrLiteral(JumpTarget(k), 4)
                ELSE /\ pass' = "exit1"
                     /\ asm_err' = "Error: Undefined label"
                     /\ asm_out' = asm_out
           /\ TakesLiteral2(k) =>
                WritesLabelOrLiteral(ScanTwoOperands(TextOf(k)).operand2, 4)
           /\ TakesLiteral1(k) =>
                WritesLabelOrLiteral(
                  ScanOneOperand(TextOf(k)).operand1,
                  IF ScanOneOperand(TextOf(k)).instruction = S_DATA THEN 2 ELSE 4)
    ]_vars

\* "OUT x" written with the literal 0, then "JMP 5" refused.
C4_Witness ==
  /\ pass = "exit1"
  /\ asm_err = "Error: Undefined label"
  /\ i = 1
  /\ IsJump(2)
  /\ JumpTarget(2) = T_5
  /\ TextOf(1) = Line1(S_OUT, T_x)
  /\ asm_out = <<OUT, 0, 0, 0>>

---------------------------------------------------------------------------
(* svm: the machine *)

\* The state processor_cycle works on, as one value.
Machine ==
  [cpu |-> cpu, memory |-> memory, out |-> vm_out, status |-> status,
   err |-> vm_err, stored |-> stored]

Become(m) ==
  /\ cpu' = m.cpu
  /\ memory' = m.memory
  /\ vm_out' = m.out
  /\ status' = m.status
  /\ vm_err' = m.err
  /\ stored' = m.stored

WithCPU(m, c) == [m EXCEPT !.cpu = c]

\* fprintf(stderr, ...); exit(1);
Exit1(m, msg) == [m EXCEPT !.status = "exit1", !.err = msg]

\* The process is killed on an access outside its memory.
Fault(m) == [m EXCEPT !.status = "fault"]

\* What a read of memory[a] can give: the cell, or any byte at all when a is
\* outside the array (the behaviour is undefined).
ReadOutcomes(mem, a) == IF a < MEMORY_SIZE THEN {Cell(mem, a)} ELSE 0..255

\* The byte read by memory[cpu.PC++], and the fault such a read can end in.
BytesAtPC(m) == ReadOutcomes(m.memory, m.cpu.PC)
FaultAtPC(m) == IF m.cpu.PC >= MEMORY_SIZE THEN {Fault(m)} ELSE {}

\* cpu.PC++ and cpu.PC += 2, on a uint16_t.
Advance(c, n) == [c EXCEPT !.PC = U16(@ + n)]

\* What a write outside the array can hit, when it hits the CPU: byte b lands
\* in one half of a 16-bit field or in a flag.
Clobbered(c, b) ==
  {[c EXCEPT !.REG1 = BitOr(ShiftLeft(b, 8), BitAnd(@, 255))],
   [c EXCEPT !.REG1 = BitOr(BitAnd(@, 65280), b)],
   [c EXCEPT !.REG2 = BitOr(ShiftLeft(b, 8), BitAnd(@, 255))],
   [c EXCEPT !.REG2 = BitOr(BitAnd(@, 65280), b)],
   [c EXCEPT !.ADDR1 = BitOr(ShiftLeft(b, 8), BitAnd(@, 255))],
   [c EXCEPT !.ADDR1 = BitOr(BitAnd(@, 65280), b)],
   [c EXCEPT !.ADDR2 = BitOr(ShiftLeft(b, 8), BitAnd(@, 255))],
   [c EXCEPT !.ADDR2 = BitOr(BitAnd(@, 65280), b)],
   [c EXCEPT !.PC = BitOr(ShiftLeft(b, 8), BitAnd(@, 255))],
   [c EXCEPT !.PC = BitOr(BitAnd(@, 65280), b)],
   [c EXCEPT !.Z = b], [c EXCEPT !.N = b], [c EXCEPT !.O = b]}

\* What memory[a] = b can do: set the cell, or, when a is outside the array
\* (the behaviour is undefined), kill the process, change nothing the
\* program reads, or overwrite a byte of the CPU.
WriteOutcomes(m, a, b) ==
  IF a < MEMORY_SIZE THEN {[m EXCEPT !.memory = SetCell(@, a, b)]}
  ELSE {Fault(m), m} \cup {WithCPU(m, c) : c \in Clobbered(m.cpu, b)}

\* StoreWord with the two bytes in the other order.
StoreWord_LittleEndian(m, a, value) ==
  LET kept == {x \in DOMAIN m.stored : x \notin {a - 1, a, a + 1}}
      here == IF a + 1 < MEMORY_SIZE THEN {a} ELSE {}
      noted == [m EXCEPT !.stored =
                  [x \in kept \cup here |-> IF x = a THEN value ELSE m.stored[x]]]
  IN  UNION {IF m1.status = "fault" THEN {m1}
             ELSE WriteOutcomes(m1, a + 1, BitAnd(ShiftRight(value, 8), 255)) :
             m1 \in WriteOutcomes(noted, a, BitAnd(value, 255))}

\* memory[a] = (value >> 8) & 0xFF; memory[a + 1] = value & 0xFF;
StoreWord(m, a, value) ==
  LET kept == {x \in DOMAIN m.stored : x \notin {a - 1, a, a + 1}}
      here == IF a + 1 < MEMORY_SIZE THEN {a} ELSE {}
      noted == [m EXCEPT !.stored =
                  [x \in kept \cup here |-> IF x = a THEN value ELSE m.stored[x]]]
  IN  UNION {IF m1.status = "fault" THEN {m1}
             ELSE WriteOutcomes(m1, a + 1, BitAnd(value, 255)) :
             m1 \in WriteOutcomes(noted, a, BitAnd(ShiftRight(value, 8), 255))}

\* FetchInBounds checking the first byte of the word only.
FetchInBounds_Lax(address) == ~(address >= MEMORY_SIZE)

\* fetchImmediate: whether the address passes its check, and the value read.
FetchInBounds(address) == ~(address + 1 >= MEMORY_SIZE)
fetchImmediate(mem, address) ==
  BitOr(ShiftLeft(Cell(mem, address), 8), Cell(mem, address + 1))

Bool(b) == IF b THEN 1 ELSE 0

\* set_flags with the overflow test of '+' reduced to "the operands share a sign".
set_flags_SameSign(c, operand1, operand2, result, operation) ==
  [c EXCEPT
     !.Z = Bool(result = 0),
     !.N = Bool(BitAnd(result, 32768) /= 0),
     !.O = IF operation = "+"
           THEN Bool(BitAnd(operand1, 32768) = BitAnd(operand2, 32768))
           ELSE IF operation = "-"
           THEN Bool(/\ BitAnd(operand1, 32768) /= BitAnd(operand2, 32768)
                     /\ BitAnd(result, 32768) /= BitAnd(operand1, 32768))
           ELSE 0]

set_flags(c, operand1, operand2, result, operation) ==
  [c EXCEPT
     !.Z = Bool(result = 0),
     !.N = Bool(BitAnd(result, 32768) /= 0),
     !.O = IF operation = "+"
           THEN Bool(/\ BitAnd(operand1, 32768) = BitAnd(operand2, 32768)
                     /\ BitAnd(result, 32768) /= BitAnd(operand1, 32768))
           ELSE IF operation = "-"
           THEN Bool(/\ BitAnd(operand1, 32768) /= BitAnd(operand2, 32768)
                     /\ BitAnd(result, 32768) /= BitAnd(operand1, 32768))
           ELSE 0]

\* set_flags_for_load clearing O as well.
set_flags_for_load_ClearsO(c, value) ==
  [c EXCEPT !.Z = Bool(value = 0), !.N = Bool(BitAnd(value, 32768) /= 0), !.O = 0]

set_flags_for_load(c, value) ==
  [c EXCEPT !.Z = Bool(value = 0), !.N = Bool(BitAnd(value, 32768) /= 0)]

\* (int16_t)v, as printf("%d") prints it.
Int16(v) == IF v >= 32768 THEN v - 65536 ELSE v

Printed(m, kind, v) == [m EXCEPT !.out = Append(@, <<kind, v>>)]

\* The two fields of a packed register byte.
Reg2Of(reg_byte) == BitAnd(ShiftRight(reg_byte, 6), 3)
Reg1Of(reg_byte) == BitAnd(reg_byte, 3)

---------------------------------------------------------------------------
(* svm: processor_cycle, one operator per case of the switch.  Each takes the
   machine as it is after the opcode was fetched (and PC stepped past it) and
   gives the set of machines the case can leave behind. *)

OutOfBounds == "Memory access out of bounds"

\* The register named by a 2-bit field, as LOADI and STOREI select it.
AnyRegister(c, code) ==
  IF code = A1 THEN c.ADDR1
  ELSE IF code = A2 THEN c.ADDR2
  ELSE IF code = R1 THEN c.REG1
  ELSE c.REG2

\* dest = value, with the flags a load sets, as LOAD and LOADI assign it.
Loaded(c, code, value) ==
  IF code = R1 THEN set_flags_for_load([c EXCEPT !.REG1 = value], value)
  ELSE IF code = R2 THEN set_flags_for_load([c EXCEPT !.REG2 = value], value)
  ELSE IF code = A1 THEN [c EXCEPT !.ADDR1 = value]
  ELSE IF code = A2 THEN [c EXCEPT !.ADDR2 = value]
  ELSE c

LOAD_With(m, reg) ==
  LET c1 == Advance(m.cpu, 1) IN
  IF ~FetchInBounds(c1.PC) THEN Exit1(WithCPU(m, c1), OutOfBounds)
  ELSE LET immediate == fetchImmediate(m.memory, c1.PC)
       IN  WithCPU(m, Loaded(Advance(c1, 2), reg, immediate))

DoLOAD(m) == {LOAD_With(m, reg) : reg \in BytesAtPC(m)} \cup FaultAtPC(m)

LOADI_With(m, reg_byte) ==
  LET c1 == Advance(m.cpu, 1)
      reg2 == Reg2Of(reg_byte)
      reg1 == Reg1Of(reg_byte)
      address == AnyRegister(c1, reg2)
  IN  IF reg2 \notin {A1, A2, R1, R2}
      THEN Exit1(WithCPU(m, c1), "Invalid address register in LOADI")
      ELSE IF ~FetchInBounds(address)
      THEN Exit1(WithCPU(m, c1), OutOfBounds)
      ELSE IF reg1 \notin {A1, A2, R1, R2}
      THEN Exit1(WithCPU(m, c1), "Invalid destination register in LOADI")
      ELSE WithCPU(m, Loaded(c1, reg1, fetchImmediate(m.memory, address)))

DoLOADI(m) == {LOADI_With(m, b) : b \in BytesAtPC(m)} \cup FaultAtPC(m)

STORE_With(m, reg) ==
  LET c1 == Advance(m.cpu, 1) IN
  IF ~FetchInBounds(c1.PC) THEN {Exit1(WithCPU(m, c1), OutOfBounds)}
  ELSE LET immediate == fetchImmediate(m.memory, c1.PC)
           c2 == Advance(c1, 2)
           value == IF reg = R1 THEN c2.REG1 ELSE c2.REG2
       IN  StoreWord(WithCPU(m, c2), immediate, value)

DoSTORE(m) == (UNION {STORE_With(m, reg) : reg \in BytesAtPC(m)}) \cup FaultAtPC(m)

STOREI_With(m, reg_byte) ==
  LET c1 == Advance(m.cpu, 1)
      reg2 == Reg2Of(reg_byte)
      reg1 == Reg1Of(reg_byte)
  IN  IF reg2 \notin {A1, A2, R1, R2}
      THEN {Exit1(WithCPU(m, c1), "Invalid address register in STOREI")}
      ELSE IF reg1 \notin {A1, A2, R1, R2}
      THEN {Exit1(WithCPU(m, c1), "Invalid source register in STOREI")}
      ELSE StoreWord(WithCPU(m, c1), AnyRegister(c1, reg2), AnyRegister(c1, reg1))

DoSTOREI(m) == (UNION {STOREI_With(m, b) : b \in BytesAtPC(m)}) \cup FaultAtPC(m)

\* cpu.REGn += immediate (sign = 1) or -= immediate (sign = -1), then set_flags.
Arith(c, reg, operand, sign, operation) ==
  LET old_value == IF reg = R1 THEN c.REG1 ELSE c.REG2 IN
  IF reg = R1
  THEN LET r == U16(c.REG1 + sign * operand)
       IN  set_flags([c EXCEPT !.REG1 = r], old_value, operand, r, operation)
  ELSE IF reg = R2
  THEN LET r == U16(c.REG2 + sign * operand)
       IN  set_flags([c EXCEPT !.REG2 = r], old_value, operand, r, operation)
  ELSE c

ADD_With(m, reg) ==
  LET c1 == Advance(m.cpu, 1) IN
  IF ~FetchInBounds(c1.PC) THEN Exit1(WithCPU(m, c1), OutOfBounds)
  ELSE LET immediate == fetchImmediate(m.memory, c1.PC)
       IN  WithCPU(m, Arith(Advance(c1, 2), reg, immediate, 1, "+"))

DoADD(m) == {ADD_With(m, reg) : reg \in BytesAtPC(m)} \cup FaultAtPC(m)

SUB_With(m, reg) ==
  LET c1 == Advance(m.cpu, 1) IN
  IF ~FetchInBounds(c1.PC) THEN Exit1(WithCPU(m, c1), OutOfBounds)
  ELSE LET immediate == fetchImmediate(m.memory, c1.PC)
       IN  WithCPU(m, Arith(Advance(c1, 2), reg, immediate, -1, "-"))

DoSUB(m) == {SUB_With(m, reg) : reg \in BytesAtPC(m)} \cup FaultAtPC(m)

\* ArithR with the subtraction taken the other way round: src_value - *dest_reg.
ArithR_Reversed(c, reg_byte, sign, operation) ==
  LET reg2 == Reg2Of(reg_byte)
      reg1 == Reg1Of(reg_byte)
      src_value == IF reg2 = R1 THEN c.REG1 ELSE c.REG2
      old_value == IF reg1 = R1 THEN c.REG1 ELSE c.REG2
      r == U16(src_value + sign * old_value)
  IN  set_flags(IF reg1 = R1 THEN [c EXCEPT !.REG1 = r] ELSE [c EXCEPT !.REG2 = r],
                old_value, src_value, r, operation)

\* *dest_reg += src_value (sign = 1) or -= src_value (sign = -1), then
\* set_flags; dest_reg and src_value are each REG1 for code R1, else REG2.
ArithR(c, reg_byte, sign, operation) ==
  LET reg2 == Reg2Of(reg_byte)
      reg1 == Reg1Of(reg_byte)
      src_value == IF reg2 = R1 THEN c.REG1 ELSE c.REG2
      old_value == IF reg1 = R1 THEN c.REG1 ELSE c.REG2
      r == U16(old_value + sign * src_value)
  IN  set_flags(IF reg1 = R1 THEN [c EXCEPT !.REG1 = r] ELSE [c EXCEPT !.REG2 = r],
                old_value, src_value, r, operation)

ADDR_With(m, reg_byte) == WithCPU(m, ArithR(Advance(m.cpu, 1), reg_byte, 1, "+"))

DoADDR(m) == {ADDR_With(m, b) : b \in BytesAtPC(m)} \cup FaultAtPC(m)

SUBR_With(m, reg_byte) == WithCPU(m, ArithR(Advance(m.cpu, 1), reg_byte, -1, "-"))

DoSUBR(m) == {SUBR_With(m, b) : b \in BytesAtPC(m)} \cup FaultAtPC(m)

\* Taken with JMPZ jumping when Z is clear.
Taken_OnClear(opcode, c) ==
  \/ opcode = JMP
  \/ opcode = JMPZ /\ c.Z = 0
  \/ opcode = JMPN /\ c.N /= 0
  \/ opcode = JMPO /\ c.O /= 0

Taken(opcode, c) ==
  \/ opcode = JMP
  \/ opcode = JMPZ /\ c.Z /= 0
  \/ opcode = JMPN /\ c.N /= 0
  \/ opcode = JMPO /\ c.O /= 0

\* JMP_With with no test of the target.
JMP_With_Unchecked(m, opcode, unused) ==
  LET c1 == Advance(m.cpu, 1) IN
  IF c1.PC >= MEMORY_SIZE
  THEN Exit1(WithCPU(m, c1), "Jumped to invalid memory address")
  ELSE IF ~FetchInBounds(c1.PC) THEN Exit1(WithCPU(m, c1), OutOfBounds)
  ELSE LET immediate == fetchImmediate(m.memory, c1.PC)
           c2 == Advance(c1, 2)
       IN  IF Taken(opcode, c2)
           THEN WithCPU(m, [c2 EXCEPT !.PC = immediate])
           ELSE WithCPU(m, c2)

\* JMP_With taking the operand as an offset from the next instruction.
JMP_With_Relative(m, opcode, unused) ==
  LET c1 == Advance(m.cpu, 1) IN
  IF c1.PC >= MEMORY_SIZE
  THEN Exit1(WithCPU(m, c1), "Jumped to invalid memory address")
  ELSE IF ~FetchInBounds(c1.PC) THEN Exit1(WithCPU(m, c1), OutOfBounds)
  ELSE LET immediate == fetchImmediate(m.memory, c1.PC)
           c2 == Advance(c1, 2)
       IN  IF Taken(opcode, c2)
           THEN IF U16(c2.PC + immediate) < MEMORY_SIZE
                THEN WithCPU(m, [c2 EXCEPT !.PC = U16(c2.PC + immediate)])
                ELSE Exit1(WithCPU(m, c2), "Jump to invalid memory")
           ELSE WithCPU(m, c2)

\* The byte after the opcode is read and never used.
JMP_With(m, opcode, unused) ==
  LET c1 == Advance(m.cpu, 1) IN
  IF c1.PC >= MEMORY_SIZE
  THEN Exit1(WithCPU(m, c1), "Jumped to invalid memory address")
  ELSE IF ~FetchInBounds(c1.PC) THEN Exit1(WithCPU(m, c1), OutOfBounds)
  ELSE LET immediate == fetchImmediate(m.memory, c1.PC)
           c2 == Advance(c1, 2)
       IN  IF Taken(opcode, c2)
           THEN IF immediate < MEMORY_SIZE
                THEN WithCPU(m, [c2 EXCEPT !.PC = immediate])
                ELSE Exit1(WithCPU(m, c2), "Jump to invalid memory")
           ELSE WithCPU(m, c2)

DoJMP(m, opcode) ==
  {JMP_With(m, opcode, unused) : unused \in BytesAtPC(m)} \cup FaultAtPC(m)

\* OUT and OUTC step over the byte after the opcode without reading it.
DoOUT(m) ==
  LET c1 == Advance(m.cpu, 1) IN
  IF ~FetchInBounds(c1.PC) THEN {Exit1(WithCPU(m, c1), OutOfBounds)}
  ELSE LET immediate == fetchImmediate(m.memory, c1.PC)
       IN  {Printed(WithCPU(m, Advance(c1, 2)), "d", Int16(immediate))}

DoOUTC(m) ==
  LET c1 == Advance(m.cpu, 1) IN
  IF ~FetchInBounds(c1.PC) THEN {Exit1(WithCPU(m, c1), OutOfBounds)}
  ELSE LET immediate == fetchImmediate(m.memory, c1.PC)
       IN  {Printed(WithCPU(m, Advance(c1, 2)), "c", BitAnd(immediate, 255))}

OUTR_With(m, reg) ==
  LET m1 == WithCPU(m, Advance(m.cpu, 1)) IN
  IF reg = R1 THEN Printed(m1, "d", Int16(m1.cpu.REG1))
  ELSE IF reg = R2 THEN Printed(m1, "d", Int16(m1.cpu.REG2))
  ELSE m1

DoOUTR(m) == {OUTR_With(m, reg) : reg \in BytesAtPC(m)} \cup FaultAtPC(m)

OUTRC_With(m, reg) ==
  LET m1 == WithCPU(m, Advance(m.cpu, 1)) IN
  IF reg = R1 THEN Printed(m1, "c", BitAnd(m1.cpu.REG1, 255))
  ELSE IF reg = R2 THEN Printed(m1, "c", BitAnd(m1.cpu.REG2, 255))
  ELSE m1

DoOUTRC(m) == {OUTRC_With(m, reg) : reg \in BytesAtPC(m)} \cup FaultAtPC(m)

OUTI_With(m, reg) ==
  LET m1 == WithCPU(m, Advance(m.cpu, 1))
      address == IF reg = A1 THEN m1.cpu.ADDR1 ELSE m1.cpu.ADDR2
  IN  IF ~FetchInBounds(address) THEN Exit1(m1, OutOfBounds)
      ELSE Printed(m1, "d", Int16(fetchImmediate(m.memory, address)))

DoOUTI(m) == {OUTI_With(m, reg) : reg \in BytesAtPC(m)} \cup FaultAtPC(m)

\* uint8_t value = memory[address], with no check of address.
OUTIC_With(m, reg) ==
  LET m1 == WithCPU(m, Advance(m.cpu, 1))
      address == IF reg = A1 THEN m1.cpu.ADDR1 ELSE m1.cpu.ADDR2
  IN  {Printed(m1, "c", value) : value \in ReadOutcomes(m.memory, address)}
        \cup (IF address >= MEMORY_SIZE THEN {Fault(m1)} ELSE {})

DoOUTIC(m) == (UNION {OUTIC_With(m, reg) : reg \in BytesAtPC(m)}) \cup FaultAtPC(m)

JumpOpcodes == {JMP, JMPZ, JMPN, JMPO}

Known ==
  {HALT, LOAD, LOADI, STORE, STOREI, JMP, JMPZ, JMPN, JMPO, ADD, ADDR, SUB,
   SUBR, OUT, OUTC, OUTR, OUTRC, OUTI, OUTIC}

\* switch (opcode)
Execute(m, opcode) ==
  IF opcode = HALT THEN {[m EXCEPT !.status = "halted"]}
  ELSE IF opcode = LOAD THEN DoLOAD(m)
  ELSE IF opcode = LOADI THEN DoLOADI(m)
  ELSE IF opcode = STORE THEN DoSTORE(m)
  ELSE IF opcode = STOREI THEN DoSTOREI(m)
  ELSE IF opcode = ADD THEN DoADD(m)
  ELSE IF opcode = ADDR THEN DoADDR(m)
  ELSE IF opcode = SUB THEN DoSUB(m)
  ELSE IF opcode = SUBR THEN DoSUBR(m)
  ELSE IF opcode \in JumpOpcodes THEN DoJMP(m, opcode)
  ELSE IF opcode = OUT THEN DoOUT(m)
  ELSE IF opcode = OUTC THEN DoOUTC(m)
  ELSE IF opcode = OUTR THEN DoOUTR(m)
  ELSE IF opcode = OUTRC THEN DoOUTRC(m)
  ELSE IF opcode = OUTI THEN DoOUTI(m)
  ELSE IF opcode = OUTIC THEN DoOUTIC(m)
  ELSE {Exit1(m, "Unknown opcode")}

\* One turn of the while (1) loop, from machine m: the opcode fetch
\* memory[cpu.PC++] and the case it selects.
CycleOutcomes(m) ==
  (UNION {Execute(WithCPU(m, Advance(m.cpu, 1)), opcode) : opcode \in BytesAtPC(m)})
    \cup FaultAtPC(m)

---------------------------------------------------------------------------
(* svm: main *)

\* load_program stopping one byte before the end of memory.
load_program_Short(stream) ==
  [address \in {x \in DOMAIN stream.bytes : x < stream.len /\ x + 1 < MEMORY_SIZE} |->
     stream.bytes[address]]

\* load_program: the stream's bytes below min(len, MEMORY_SIZE), in their places.
load_program(stream) ==
  [address \in {x \in DOMAIN stream.bytes : x < stream.len /\ x < MEMORY_SIZE} |->
     stream.bytes[address]]

\* initialize_cpu
initialize_cpu == ZeroCPU

\* main, up to the call of processor_cycle.
LoadProgram ==
  /\ status = "init"
  /\ cpu' = initialize_cpu
  /\ memory' = load_program(stdin)
  /\ status' = "running"
  /\ UNCHANGED <<stdin, vm_out, vm_err, cycles, stored, asm_vars>>

\* Iterations of the loop of processor_cycle that are followed.
MaxCycles == 6

Running == status = "running" /\ cycles < MaxCycles

\* The machine once the opcode is fetched: uint8_t opcode = memory[cpu.PC++].
Fetched == WithCPU(Machine, Advance(cpu, 1))

Counted == cycles' = cycles + 1 /\ UNCHANGED <<stdin, asm_vars>>

CycleHALT ==
  /\ Running
  /\ HALT \in BytesAtPC(Machine)
  /\ \E m \in Execute(Fetched, HALT) : Become(m)
  /\ Counted

CycleLOAD ==
  /\ Running
  /\ LOAD \in BytesAtPC(Machine)
  /\ \E m \in Execute(Fetched, LOAD) : Become(m)
  /\ Counted

CycleLOADI ==
  /\ Running
  /\ LOADI \in BytesAtPC(Machine)
  /\ \E m \in Execute(Fetched, LOADI) : Become(m)
  /\ Counted

CycleSTORE ==
  /\ Running
  /\ STORE \in BytesAtPC(Machine)
  /\ \E m \in Execute(Fetched, STORE) : Become(m)
  /\ Counted

CycleSTOREI ==
  /\ Running
  /\ STOREI \in BytesAtPC(Machine)
  /\ \E m \in Execute(Fetched, STOREI) : Become(m)
  /\ Counted

CycleADD ==
  /\ Running
  /\ ADD \in BytesAtPC(Machine)
  /\ \E m \in Execute(Fetched, ADD) : Become(m)
  /\ Counted

CycleADDR ==
  /\ Running
  /\ ADDR \in BytesAtPC(Machine)
  /\ \E m \in Execute(Fetched, ADDR) : Become(m)
  /\ Counted

CycleSUB ==
  /\ Running
  /\ SUB \in BytesAtPC(Machine)
  /\ \E m \in Execute(Fetched, SUB) : Become(m)
  /\ Counted

CycleSUBR ==
  /\ Running
  /\ SUBR \in BytesAtPC(Machine)
  /\ \E m \in Execute(Fetched, SUBR) : Become(m)
  /\ Counted

CycleJMP ==
  /\ Running
  /\ \E opcode \in BytesAtPC(Machine) \cap JumpOpcodes :
       \E m \in Execute(Fetched, opcode) : Become(m)
  /\ Counted

CycleOUT ==
  /\ Running
  /\ OUT \in BytesAtPC(Machine)
  /\ \E m \in Execute(Fetched, OUT) : Become(m)
  /\ Counted

CycleOUTC ==
  /\ Running
  /\ OUTC \in BytesAtPC(Machine)
  /\ \E m \in Execute(Fetched, OUTC) : Become(m)
  /\ Counted

CycleOUTR ==
  /\ Running
  /\ OUTR \in BytesAtPC(Machine)
  /\ \E m \in Execute(Fetched, OUTR) : Become(m)
  /\ Counted

CycleOUTRC ==
  /\ Running
  /\ OUTRC \in BytesAtPC(Machine)
  /\ \E m \in Execute(Fetched, OUTRC) : Become(m)
  /\ Counted

CycleOUTI ==
  /\ Running
  /\ OUTI \in BytesAtPC(Machine)
  /\ \E m \in Execute(Fetched, OUTI) : Become(m)
  /\ Counted

CycleOUTIC ==
  /\ Running
  /\ OUTIC \in BytesAtPC(Machine)
  /\ \E m \in Execute(Fetched, OUTIC) : Become(m)
  /\ Counted

\* CycleUnknown returning from the loop as HALT does.
CycleUnknown_Halts ==
  /\ Running
  /\ \E opcode \in BytesAtPC(Machine) \ Known :
       Become([Fetched EXCEPT !.status = "halted"])
  /\ Counted

CycleUnknown ==
  /\ Running
  /\ \E opcode \in BytesAtPC(Machine) \ Known :
       \E m \in Execute(Fetched, opcode) : Become(m)
  /\ Counted

\* The opcode fetch itself ends the process.
CycleFault ==
  /\ Running
  /\ \E m \in FaultAtPC(Machine) : Become(m)
  /\ Counted

VmNext ==
  \/ LoadProgram
  \/ CycleHALT
  \/ CycleLOAD
  \/ CycleLOADI
  \/ CycleSTORE
  \/ CycleSTOREI
  \/ CycleADD
  \/ CycleADDR
  \/ CycleSUB
  \/ CycleSUBR
  \/ CycleJMP
  \/ CycleOUT
  \/ CycleOUTC
  \/ CycleOUTR
  \/ CycleOUTRC
  \/ CycleOUTI
  \/ CycleOUTIC
  \/ CycleUnknown
  \/ CycleFault

---------------------------------------------------------------------------
(* svm: the byte streams explored *)

Ins4(opcode, reg, immediate) == <<opcode, reg>> \o write16(immediate)
Ins2(opcode, reg1, reg2) == <<opcode, PackRegisters(reg1, reg2)>>
Halt == <<HALT>>

\* A stream holding the bytes of seq, and one with seq laid over it at an offset.
StreamOf(seq) ==
  [len |-> Len(seq),
   bytes |-> [a \in {k - 1 : k \in {j \in 1..Len(seq) : seq[j] /= 0}} |-> seq[a + 1]]]

Placed(stream, at, seq) ==
  LET over == at..(at + Len(seq) - 1)
      set == {a \in over : seq[a - at + 1] /= 0}
  IN  [len |-> IF stream.len < at + Len(seq) THEN at + Len(seq) ELSE stream.len,
       bytes |-> [a \in (DOMAIN stream.bytes \ over) \cup set |->
                    IF a \in set THEN seq[a - at + 1] ELSE stream.bytes[a]]]

\* Register and operand values: zero, one, and the values around the sign bit.
Values == {0, 1, 32767, 32768, 65535}
DataRegisters == {R1, R2}

ArithBodies ==
  {Ins4(op, r, b) : op \in {ADD, SUB}, r \in DataRegisters, b \in Values}
    \cup {Ins2(op, r1, r2) : op \in {ADDR, SUBR}, r1 \in DataRegisters, r2 \in DataRegisters}
    \cup {Ins4(ADD, A1, 1), Ins4(SUB, A2, 1), Ins2(ADDR, A1, R1), Ins2(SUBR, R1, A2)}

\* Both data registers set, one arithmetic instruction, the result printed.
ArithPrograms ==
  {StreamOf(Ins4(LOAD, R1, a) \o Ins4(LOAD, R2, b) \o body \o <<OUTR, R1>> \o Halt) :
     a \in Values, b \in Values, body \in ArithBodies}
    \cup {StreamOf(Ins4(ADD, R1, 32767) \o Ins4(ADD, R1, 1) \o <<OUTR, R1>> \o Halt),
          StreamOf(Ins4(SUB, R2, 1) \o Ins4(SUB, R2, 32767) \o Ins2(SUBR, R2, R2) \o Halt)}

\* Flags set by a load and an addition, then a jump at address 8 whose unused
\* byte and target vary; something to run at the fall-through and at address 20.
JumpPrograms ==
  {Placed(StreamOf(Ins4(LOAD, R1, a) \o Ins4(ADD, R1, b) \o <<op, unused>> \o write16(t)
                     \o Ins4(OUTC, 0, 78) \o Halt),
          20, <<OUTR, R1>> \o Halt) :
     a \in Values, b \in Values, op \in JumpOpcodes, unused \in {0, 255}, t \in {20, 32767, 40000}}
    \cup {Placed(StreamOf(Ins4(LOAD, R1, a) \o <<JMPZ, 0>> \o write16(20)), 20, Halt) :
            a \in {0, 1}}

\* A jump whose bytes end at, or run past, the end of memory, reached by a
\* jump from address 12.
HighJumpPrograms ==
  {Placed(StreamOf(Ins4(LOAD, R1, 1) \o Ins4(LOAD, R2, 0) \o Ins4(LOAD, A1, 100)
                     \o <<JMP, 0>> \o write16(p)),
          p, <<op, 9>> \o write16(20)) :
     p \in 32764..32767, op \in JumpOpcodes}

\* A word stored directly or through A1, a second store beside or over it,
\* and a read through A1.
Stores1 == {Ins4(STORE, R1, 100), Ins2(STOREI, R1, A1)}
Stores2 ==
  {<<>>, Ins4(STORE, R2, 101), Ins4(STORE, R2, 99), Ins4(STORE, R1, 102),
   Ins4(STORE, R1, 98), Ins2(STOREI, A1, A1)}
Reads == {Ins2(LOADI, R2, A1), Ins2(LOADI, A2, A1), <<OUTI, A1>>, <<OUTIC, A1>>}

MemoryPrograms ==
  {StreamOf(Ins4(LOAD, A1, 100) \o Ins4(LOAD, R1, v) \o s1 \o s2 \o r) :
     v \in {1, 4660, 32768, 65535}, s1 \in Stores1, s2 \in Stores2, r \in Reads}

\* Stores and reads at the last word of memory, across its end, and beyond it.
EdgePrograms ==
  UNION {{StreamOf(Ins4(LOAD, A1, a) \o Ins4(LOAD, R1, 4660) \o s \o r) :
            s \in {Ins4(STORE, R1, a), Ins2(STOREI, R1, A1)},
            r \in {Ins2(LOADI, R2, A1), <<OUTI, A1>>}}
           \cup {StreamOf(Ins4(LOAD, A1, a) \o r \o Halt) : r \in Reads} :
         a \in {32766, 32767, 32776, 40000}}

\* LOADI and STOREI through a data register, after the data registers are set.
RegisterPrograms ==
  {StreamOf(Ins4(LOAD, R1, 100) \o Ins4(LOAD, R2, 4660) \o x \o Halt) :
     x \in {Ins2(LOADI, R2, R1), Ins2(LOADI, A1, R2), Ins2(STOREI, R2, R1),
            Ins2(STOREI, A1, R1)}}

\* Loads into each register after an addition has set O and N.
FlagPrograms ==
  {StreamOf(Ins4(ADD, R1, 32767) \o Ins4(ADD, R1, 1) \o Ins4(LOAD, r, v) \o Halt) :
     r \in {R1, R2, A1, A2}, v \in {0, 1, 32768}}
    \cup {StreamOf(Ins4(ADD, R1, 32767) \o Ins4(ADD, R1, 1) \o Ins4(LOAD, A1, t)
                     \o Ins2(LOADI, r, A1) \o Halt) :
            r \in {R1, R2, A1, A2}, t \in {0, 3, 100}}

\* A jump to its own address: JMP at 0, and JMPZ at 4 with Z set by a load.
LoopPrograms ==
  {StreamOf(<<JMP, 0>> \o write16(0) \o Halt),
   StreamOf(Ins4(LOAD, R1, 0) \o <<JMPZ, 0>> \o write16(4) \o Halt),
   StreamOf(Ins4(LOAD, R1, 1) \o <<JMPZ, 0>> \o write16(4) \o Halt)}

\* Instructions that are no jumps in the last bytes of memory, reached by a
\* jump from address 12: the run goes on past the last cell.
EndPrograms ==
  {Placed(StreamOf(Ins4(LOAD, R1, 1) \o Ins4(LOAD, R2, 0) \o Ins4(LOAD, A1, 100)
                     \o <<JMP, 0>> \o write16(32768 - Len(x))),
          32768 - Len(x), x) :
     x \in {<<OUTR, R1>>, Ins4(ADD, R1, 1), Halt, <<OUTC, 0, 0, 65>>}}
    \cup {Placed(StreamOf(Ins4(LOAD, R1, 1) \o Ins4(LOAD, R2, 0)
                            \o Ins4(LOAD, A1, 100) \o <<JMP, 0>> \o write16(32767)),
                 32767, <<op>>) : op \in {OUTR, ADDR, STOREI}}

\* ADD and SUB with the code of an address register in the register byte.
AddressArithPrograms ==
  {StreamOf(Ins4(LOAD, A1, 100) \o Ins4(LOAD, A2, 7) \o Ins4(ADD, R1, 32768)
              \o Ins4(op, r, 5) \o Halt) :
     op \in {ADD, SUB}, r \in {A1, A2}}

OutputPrograms ==
  {StreamOf(Ins4(LOAD, R1, v) \o Ins4(OUT, 9, v) \o Ins4(OUTC, 9, v)
              \o <<OUTR, R1>> \o <<OUTRC, R1>> \o Halt) :
     v \in {65, 32768, 65535}}

\* Streams shorter than memory, as long as it, and longer, with bytes that
\* are not zero on both sides of the boundary.
LongStreams ==
  {StreamOf(<<>>),
   Placed(StreamOf(Halt), 32766, <<170>>),
   Placed(StreamOf(Halt), 32766, <<170, 187>>),
   Placed(StreamOf(Halt), 32766, <<170, 187, 204>>),
   Placed(StreamOf(Ins4(LOAD, A1, 32766) \o Ins2(LOADI, R1, A1) \o Halt),
          32766, <<170, 187, 204>>),
   Placed(StreamOf(Ins4(OUT, 0, 7)), 39999, <<221>>)}

Streams ==
  ArithPrograms \cup JumpPrograms \cup HighJumpPrograms \cup MemoryPrograms
    \cup EdgePrograms \cup RegisterPrograms \cup FlagPrograms \cup OutputPrograms
    \cup LoopPrograms \cup EndPrograms \cup AddressArithPrograms \cup LongStreams

\* sasm at rest: what it leaves behind on an empty source.
AsmIdle ==
  /\ lines = <<>>
  /\ source = <<>>
  /\ pass = "done"
  /\ i = 0
  /\ location_counter = 0
  /\ symbol_table = <<>>
  /\ instruction_addresses = [k \in {} |-> 0]
  /\ asm_out = <<>>
  /\ asm_err = ""
  /\ counted = <<>>
  /\ label_line = <<>>
  /\ emitted = <<>>

\* svm started on a stream: memory and cpu are zeroed statics.
VmInit ==
  /\ AsmIdle
  /\ stdin \in Streams
  /\ cpu = ZeroCPU
  /\ memory = ZeroMemory
  /\ vm_out = <<>>
  /\ status = "init"
  /\ vm_err = ""
  /\ cycles = 0
  /\ stored = NoStores

SpecVM == VmInit /\ [][VmNext]_vars

---------------------------------------------------------------------------
(* sasm and svm together: a source is assembled and the bytes written are
   given to svm as its standard input *)

T_0 == <<"0">>
T_1 == <<"1">>
T_255 == <<"2", "5", "5">>
T_256 == <<"2", "5", "6">>
T_4660 == <<"4", "6", "6", "0">>
T_32767 == <<"3", "2", "7", "6", "7">>
T_32768 == <<"3", "2", "7", "6", "8">>

\* Literals, each with the 16-bit value it denotes.
WordTokens ==
  {<<T_0, 0>>, <<T_1, 1>>, <<T_255, 255>>, <<T_256, 256>>, <<T_4660, 4660>>,
   <<T_32767, 32767>>, <<T_32768, 32768>>, <<T_65535, 65535>>}

\* Register names, each with its code.
RegisterNames == {<<S_R1, R1>>, <<S_R2, R2>>, <<S_A1, A1>>, <<S_A2, A2>>}

TwoRegisterMnemonics == {S_LOADI, S_STOREI, S_ADDR, S_SUBR}

\* Every instruction of two registers with every pair of registers, every
\* literal loaded into a register and printed, and a literal loaded, added
\* to the other register and printed.
CodecPrograms ==
  {<<Line2(mn, d[1], s_[1]), Line0(S_HALT)>> :
     mn \in TwoRegisterMnemonics, d \in RegisterNames, s_ \in RegisterNames}
    \cup {<<Line2(S_LOAD, r[1], t[1]), Line1(S_OUTR, S_R1), Line1(S_OUT, t[1]),
            Line0(S_HALT)>> : r \in RegisterNames, t \in WordTokens}
    \cup {<<Line2(S_LOAD, S_R1, T_4660), Line2(S_ADDR, S_R2, S_R1),
            Line1(S_OUTR, S_R2), Line0(S_HALT)>>}

ToolchainInit ==
  /\ lines \in CodecPrograms
  /\ source = lines
  /\ pass = "first"
  /\ i = 0
  /\ location_counter = 0
  /\ symbol_table = <<>>
  /\ instruction_addresses = [k \in {} |-> 0]
  /\ asm_out = <<>>
  /\ asm_err = ""
  /\ counted = <<>>
  /\ label_line = <<>>
  /\ emitted = <<>>
  /\ stdin = EmptyStream
  /\ cpu = ZeroCPU
  /\ memory = ZeroMemory
  /\ vm_out = <<>>
  /\ status = "waiting"
  /\ vm_err = ""
  /\ cycles = 0
  /\ stored = NoStores

\* sasm has ended: what it wrote is what svm reads.
Feed ==
  /\ pass \in {"done", "exit1"}
  /\ status = "waiting"
  /\ stdin' = StreamOf(asm_out)
  /\ status' = "init"
  /\ UNCHANGED <<cpu, memory, vm_out, vm_err, cycles, stored, asm_vars>>

\* The steps these programs take.
ToolchainNext ==
  \/ FirstPassTwoFields
  \/ FirstPassOneField
  \/ FirstPassReturn
  \/ SecondPassTwoOperands
  \/ SecondPassOneOperand
  \/ SecondPassNoOperand
  \/ SecondPassReturn
  \/ Feed
  \/ LoadProgram
  \/ CycleLOAD
  \/ CycleLOADI
  \/ CycleSTOREI
  \/ CycleADDR
  \/ CycleSUBR
  \/ CycleOUT
  \/ CycleOUTR
  \/ CycleHALT

SpecToolchain == ToolchainInit /\ [][ToolchainNext]_vars

---------------------------------------------------------------------------
(* svm: properties *)

\* The byte k places after PC, and the 16-bit operand of a 4-byte instruction at PC.
PcCell(k) == Cell(memory, cpu.PC + k)
WordAtPC == PcCell(2) * 256 + PcCell(3)

\* A step of the machine that runs one instruction.
Stepped == status = "running" /\ cycles' = cycles + 1

DataValue(c, code) == IF code = R1 THEN c.REG1 ELSE c.REG2
Negative(v) == v >= 32768
Flag(b) == IF b THEN 1 ELSE 0

\* A 4-byte instruction with opcode op on a data register lies at PC.
AtImmediate(op) ==
  PcCell(0) = op /\ cpu.PC + 3 < MEMORY_SIZE /\ PcCell(1) \in DataRegisters

\* A 2-byte instruction with opcode op on two data registers lies at PC.
AtRegisters(op) ==
  /\ PcCell(0) = op
  /\ cpu.PC + 1 < MEMORY_SIZE
  /\ PcCell(1) % 4 \in DataRegisters
  /\ PcCell(1) \div 64 \in DataRegisters

\* Register code `reg` of cpu' holds r, and the flags of cpu' are those of
\* the result r of a with b, whose overflow is `over`.
Result(reg, r, over) ==
  /\ DataValue(cpu', reg) = r
  /\ cpu'.Z = Flag(r = 0)
  /\ cpu'.N = Flag(Negative(r))
  /\ cpu'.O = Flag(over)

AddOverflow(a, b, r) == Negative(a) = Negative(b) /\ Negative(r) /= Negative(a)
SubOverflow(a, b, r) == Negative(a) /= Negative(b) /\ Negative(r) /= Negative(a)

C5_Example == StreamOf(<<ADD, R1, 127, 255, ADD, R1, 0, 1, OUTR, R1, HALT>>)

\* C5: ADD of an immediate b, or ADDR of a data register holding b, to a data
\* register holding a leaves (a + b) mod 65536 in it, Z = 1 iff the result is
\* 0, N = 1 iff its bit 15 is set, O = 1 iff a and b have the same bit 15 and
\* the result's differs; from R1 = 0, ADD R1, 32767 then ADD R1, 1 gives
\* R1 = 32768, O = 1, N = 1, Z = 0.
C5_AddFlags ==
  /\ [][Stepped /\ AtImmediate(ADD) =>
          LET a == DataValue(cpu, PcCell(1))
              b == WordAtPC
          IN  Result(PcCell(1), (a + b) % 65536, AddOverflow(a, b, (a + b) % 65536))]_vars
  /\ [][Stepped /\ AtRegisters(ADDR) =>
          LET a == DataValue(cpu, PcCell(1) % 4)
              b == DataValue(cpu, PcCell(1) \div 64)
          IN  Result(PcCell(1) % 4, (a + b) % 65536, AddOverflow(a, b, (a + b) % 65536))]_vars
  /\ [](stdin = C5_Example /\ cycles = 2 =>
          cpu.REG1 = 32768 /\ cpu.O = 1 /\ cpu.N = 1 /\ cpu.Z = 0)

C5_Witness ==
  /\ stdin = C5_Example
  /\ cycles = 2
  /\ cpu.REG1 = 32768
  /\ cpu.O = 1

C6_Example == StreamOf(<<SUB, R2, 0, 1, SUB, R2, 127, 255, SUBR, 0, HALT>>)

\* C6: SUB of an immediate b, or SUBR of a data register holding b, from a
\* data register holding a leaves (a - b) mod 65536 in it, Z = 1 iff the
\* result is 0, N = 1 iff its bit 15 is set, O = 1 iff a and b differ in bit 15
\* and the result's bit 15 differs from a's; SUBR of a register from itself
\* gives 0 with Z = 1, N = 0, O = 0.
C6_SubFlags ==
  /\ [][Stepped /\ AtImmediate(SUB) =>
          LET a == DataValue(cpu, PcCell(1))
              b == WordAtPC
          IN  Result(PcCell(1), (a - b) % 65536, SubOverflow(a, b, (a - b) % 65536))]_vars
  /\ [][Stepped /\ AtRegisters(SUBR) =>
          LET a == DataValue(cpu, PcCell(1) % 4)
              b == DataValue(cpu, PcCell(1) \div 64)
          IN  Result(PcCell(1) % 4, (a - b) % 65536, SubOverflow(a, b, (a - b) % 65536))]_vars
  /\ [][Stepped /\ AtRegisters(SUBR) /\ PcCell(1) % 4 = PcCell(1) \div 64 =>
          /\ DataValue(cpu', PcCell(1) % 4) = 0
          /\ cpu'.Z = 1 /\ cpu'.N = 0 /\ cpu'.O = 0]_vars

C6_Witness ==
  /\ stdin = C6_Example
  /\ cycles = 3
  /\ cpu.REG2 = 0
  /\ cpu.Z = 1
  /\ cpu.N = 0
  /\ cpu.O = 0

\* A whole jump instruction with opcode op lies at PC, its target in bounds,
\* and the flags are 0 or 1.
AtJump(op) ==
  /\ PcCell(0) = op
  /\ cpu.PC + 3 < MEMORY_SIZE
  /\ WordAtPC < MEMORY_SIZE
  /\ {cpu.Z, cpu.N, cpu.O} \subseteq {0, 1}

\* The condition of jump op in the current state.
Holds(op) ==
  \/ op = JMP
  \/ op = JMPZ /\ cpu.Z = 1
  \/ op = JMPN /\ cpu.N = 1
  \/ op = JMPO /\ cpu.O = 1

C7_Example(v) == StreamOf(<<LOAD, R1, 0, v, JMPZ, 0, 0, 20>>)

\* C7: a jump instruction at address p with an in-bounds target t sets PC to t
\* when its condition holds (JMP always, JMPZ on Z = 1, JMPN on N = 1, JMPO on
\* O = 1) and to p + 4 otherwise, whatever its second byte is; LOAD R1, 0 then
\* JMPZ jumps, LOAD R1, 1 then JMPZ falls through.
C7_JumpSemantics ==
  /\ [][\A op \in JumpOpcodes :
          Stepped /\ AtJump(op) =>
            /\ status' = "running"
            /\ cpu'.PC = IF Holds(op) THEN WordAtPC ELSE cpu.PC + 4]_vars
  /\ [](Placed(C7_Example(0), 20, <<HALT>>) = stdin /\ cycles = 2 => cpu.PC = 20)
  /\ [](Placed(C7_Example(1), 20, <<HALT>>) = stdin /\ cycles = 2 => cpu.PC = 8)

\* A JMPO at address 8 with second byte 255 has jumped to 20, and one has not.
C7_Witness ==
  /\ cycles = 3
  /\ status = "running"
  /\ Cell(memory, 8) = JMPO
  /\ Cell(memory, 9) = 255
  /\ Cell(memory, 11) = 20
  /\ cpu.O = 1
  /\ cpu.PC = 20

\* The register a 2-bit code selects in LOADI and STOREI.
RegisterValue(c, code) ==
  IF code = A1 THEN c.ADDR1
  ELSE IF code = A2 THEN c.ADDR2
  ELSE IF code = R1 THEN c.REG1
  ELSE c.REG2

\* Memory holds word v at a, high byte first.
HoldsWord(mem, a, v) == Cell(mem, a) = v \div 256 /\ Cell(mem, a + 1) = v % 256

\* The instruction at PC writes neither byte of the word at a.
WritesClearOf(a) ==
  \/ cpu.PC < MEMORY_SIZE /\ PcCell(0) \notin {STORE, STOREI}
  \/ /\ PcCell(0) = STORE
     /\ cpu.PC + 3 < MEMORY_SIZE
     /\ WordAtPC \notin {a - 1, a, a + 1}
  \/ /\ PcCell(0) = STOREI
     /\ cpu.PC + 1 < MEMORY_SIZE
     /\ RegisterValue(cpu, PcCell(1) \div 64) \notin {a - 1, a, a + 1}

\* C8: after STORE of a data register's value v to an in-bounds word address a,
\* or STOREI of v through an address register holding a, memory[a] and
\* memory[a + 1] hold v high byte first, and they still do as long as no
\* instruction writes either byte; a LOADI through an address register holding
\* a then reads back exactly v.
C8_RoundTrip ==
  /\ [][Stepped /\ AtImmediate(STORE) /\ WordAtPC + 1 < MEMORY_SIZE =>
          /\ HoldsWord(memory', WordAtPC, DataValue(cpu, PcCell(1)))
          /\ WordAtPC \in DOMAIN stored'
          /\ stored'[WordAtPC] = DataValue(cpu, PcCell(1))]_vars
  /\ [][/\ Stepped
        /\ PcCell(0) = STOREI
        /\ cpu.PC + 1 < MEMORY_SIZE
        /\ PcCell(1) \div 64 \in {A1, A2}
        /\ PcCell(1) % 4 \in DataRegisters
        /\ RegisterValue(cpu, PcCell(1) \div 64) + 1 < MEMORY_SIZE
        => LET a == RegisterValue(cpu, PcCell(1) \div 64)
               v == DataValue(cpu, PcCell(1) % 4)
           IN  HoldsWord(memory', a, v) /\ a \in DOMAIN stored' /\ stored'[a] = v]_vars
  /\ [][\A a \in DOMAIN stored :
          WritesClearOf(a) => a \in DOMAIN stored' /\ stored'[a] = stored[a]]_vars
  /\ [](\A a \in DOMAIN stored : HoldsWord(memory, a, stored[a]))
  /\ [][/\ Stepped
        /\ PcCell(0) = LOADI
        /\ cpu.PC + 1 < MEMORY_SIZE
        /\ PcCell(1) \div 64 \in {A1, A2}
        /\ RegisterValue(cpu, PcCell(1) \div 64) \in DOMAIN stored
        => RegisterValue(cpu', PcCell(1) % 4) = stored[RegisterValue(cpu, PcCell(1) \div 64)]]_vars

\* STORE R1, 100 of 4660, a store beside it at 102, and LOADI R2, A1 read 4660.
C8_Witness ==
  /\ cycles = 5
  /\ Cell(memory, 8) = STORE
  /\ Cell(memory, 12) = STORE
  /\ Cell(memory, 16) = LOADI
  /\ DOMAIN stored = {100, 102}
  /\ cpu.ADDR1 = 100
  /\ cpu.REG1 = 4660
  /\ cpu.REG2 = 4660

\* C9: when the execution loop starts on a stream of n bytes, memory[i] is
\* stream byte i for i < min(n, 32768) and 0 for every other i < 32768, and the
\* registers, PC and flags are 0; a stream of 32768 bytes is loaded in full and
\* a longer one is cut at 32768 with no error.
C9_InitialState ==
  status /= "init" /\ cycles = 0 =>
    /\ status = "running"
    /\ vm_err = ""
    /\ vm_out = <<>>
    /\ DOMAIN memory \subseteq 0..(MEMORY_SIZE - 1)
    /\ \A a \in DOMAIN memory \cup DOMAIN stdin.bytes \cup {0, MEMORY_SIZE - 1} :
         a < MEMORY_SIZE =>
           Cell(memory, a) = IF a < stdin.len THEN Cell(stdin.bytes, a) ELSE 0
    /\ cpu.REG1 = 0 /\ cpu.REG2 = 0 /\ cpu.ADDR1 = 0 /\ cpu.ADDR2 = 0
    /\ cpu.PC = 0 /\ cpu.Z = 0 /\ cpu.N = 0 /\ cpu.O = 0

\* A stream of 32769 bytes is loaded: the byte at 32767 is in, the next is not.
C9_Witness ==
  /\ status = "running"
  /\ cycles = 0
  /\ stdin.len = MEMORY_SIZE + 1
  /\ Cell(stdin.bytes, MEMORY_SIZE) /= 0
  /\ Cell(memory, MEMORY_SIZE - 1) = 187
  /\ Cell(memory, MEMORY_SIZE) = 0

\* C10: execution is deterministic: the next state depends on nothing but the
\* current CPU state and memory, so a running machine has exactly one next
\* state, and two runs on the same stream go through the same states, print
\* the same items and end the same way.
C10_Deterministic ==
  status = "running" => Cardinality(CycleOutcomes(Machine)) = 1

\* The encoded length of the instruction with opcode op.
Length(op) ==
  IF op = HALT THEN 1
  ELSE IF op \in {LOAD, STORE, ADD, SUB, JMP, JMPZ, JMPN, JMPO, OUT, OUTC} THEN 4
  ELSE 2

\* Each mnemonic with its opcode.
Mnemonics ==
  {<<S_HALT, HALT>>, <<S_LOAD, LOAD>>, <<S_LOADI, LOADI>>, <<S_STORE, STORE>>,
   <<S_STOREI, STOREI>>, <<S_JMP, JMP>>, <<S_JMPZ, JMPZ>>, <<S_JMPN, JMPN>>,
   <<S_JMPO, JMPO>>, <<S_ADD, ADD>>, <<S_ADDR, ADDR>>, <<S_SUB, SUB>>,
   <<S_SUBR, SUBR>>, <<S_OUT, OUT>>, <<S_OUTC, OUTC>>, <<S_OUTR, OUTR>>,
   <<S_OUTRC, OUTRC>>, <<S_OUTI, OUTI>>, <<S_OUTIC, OUTIC>>}

\* The jump op at PC is taken: its flag is set.
JumpTaken(op) ==
  \/ op = JMP
  \/ op = JMPZ /\ cpu.Z /= 0
  \/ op = JMPN /\ cpu.N /= 0
  \/ op = JMPO /\ cpu.O /= 0

\* C11: every instruction fetched at p that completes without aborting and
\* takes no jump leaves PC = p + L, L being its encoded length (1 for HALT, 4
\* for LOAD, STORE, ADD, SUB, the jumps, OUT, OUTC, 2 for the others), which is
\* also the length the assembler's two tables give its mnemonic.
C11_PcAdvance ==
  /\ [][\A op \in Known :
          /\ Stepped
          /\ PcCell(0) = op
          /\ cpu.PC + Length(op) - 1 < MEMORY_SIZE
          /\ status' \in {"running", "halted"}
          /\ ~JumpTaken(op)
          => cpu'.PC = cpu.PC + Length(op)]_vars
  /\ [](\A mo \in Mnemonics :
          SizePlain(mo[1]) = Length(mo[2]) /\ SizeLabelled(mo[1]) = Length(mo[2]))

\* C12: the loop reaches Halted only by decoding HALT (0x31) at PC; nothing
\* changes once Halted; decoding a byte that is none of the 19 opcodes, the 0
\* of unloaded memory included, ends the run abnormally and not in Halted.
C12_HaltOnly ==
  /\ [][status' = "halted" /\ status /= "halted" =>
          status = "running" /\ (cpu.PC < MEMORY_SIZE => PcCell(0) = HALT)]_vars
  /\ [][status = "halted" => UNCHANGED vm_vars]_vars
  /\ [][Stepped /\ cpu.PC < MEMORY_SIZE /\ PcCell(0) \notin Known =>
          status' = "exit1" /\ vm_err' = "Unknown opcode"]_vars

\* A run has ended on a 0 of unloaded memory, after printing.
C12_Witness ==
  /\ status = "exit1"
  /\ vm_err = "Unknown opcode"
  /\ cpu.PC > 0
  /\ Cell(memory, cpu.PC - 1) = 0
  /\ vm_out /= <<>>

\* The registers, the flags and the output are as they were.
Untouched ==
  /\ cpu'.REG1 = cpu.REG1 /\ cpu'.REG2 = cpu.REG2
  /\ cpu'.ADDR1 = cpu.ADDR1 /\ cpu'.ADDR2 = cpu.ADDR2
  /\ cpu'.Z = cpu.Z /\ cpu'.N = cpu.N /\ cpu'.O = cpu.O
  /\ vm_out' = vm_out
  /\ memory' = memory

\* The address OUTI and OUTIC read through, given their register byte.
OutAddress == IF PcCell(1) = A1 THEN cpu.ADDR1 ELSE cpu.ADDR2

\* C13: a read of a 16-bit word at an address a with a + 1 >= 32768 (the
\* immediate of a 4-byte instruction, the word of LOADI, the word of OUTI) ends
\* the run abnormally before the instruction changes a register, a flag or the
\* output; a read at 32766 succeeds and one at 32767 aborts.
C13_WordReadChecked ==
  /\ [][/\ Stepped
        /\ PcCell(0) \in Known /\ Length(PcCell(0)) = 4
        /\ cpu.PC + 1 < MEMORY_SIZE
        /\ cpu.PC + 3 >= MEMORY_SIZE
        => status' = "exit1" /\ Untouched]_vars
  /\ [][/\ Stepped
        /\ PcCell(0) = LOADI
        /\ cpu.PC + 1 < MEMORY_SIZE
        /\ RegisterValue(cpu, PcCell(1) \div 64) + 1 >= MEMORY_SIZE
        => status' = "exit1" /\ Untouched]_vars
  /\ [][/\ Stepped
        /\ PcCell(0) = OUTI
        /\ cpu.PC + 1 < MEMORY_SIZE
        /\ OutAddress + 1 >= MEMORY_SIZE
        => status' = "exit1" /\ Untouched]_vars
  /\ [][/\ Stepped
        /\ PcCell(0) = LOADI
        /\ cpu.PC + 1 < MEMORY_SIZE
        /\ RegisterValue(cpu, PcCell(1) \div 64) = MEMORY_SIZE - 2
        => /\ status' = "running"
           /\ RegisterValue(cpu', PcCell(1) % 4) =
                Cell(memory, MEMORY_SIZE - 2) * 256 + Cell(memory, MEMORY_SIZE - 1)]_vars
  /\ [][/\ Stepped
        /\ PcCell(0) = OUTI
        /\ cpu.PC + 1 < MEMORY_SIZE
        /\ OutAddress = MEMORY_SIZE - 2
        => status' = "running" /\ Len(vm_out') = Len(vm_out) + 1]_vars
  /\ [][/\ Stepped
        /\ PcCell(0) \in Known /\ Length(PcCell(0)) = 4
        /\ cpu.PC = MEMORY_SIZE - 4
        => vm_err' /= OutOfBounds]_vars

\* LOADI through A1 = 32767 has aborted.
C13_Witness ==
  /\ status = "exit1"
  /\ vm_err = OutOfBounds
  /\ cycles = 2
  /\ cpu.ADDR1 = MEMORY_SIZE - 1
  /\ Cell(memory, 4) = LOADI
  /\ cpu.REG2 = 0

\* C14: an access to memory out of bounds is always fatal: a STORE whose
\* address, or a STOREI whose address-register value, is a with a + 1 >= 32768,
\* and an OUTIC whose address register holds a value >= 32768, ends the run
\* abnormally instead of touching memory.
C14_BoundsFatal ==
  /\ [][/\ Stepped
        /\ PcCell(0) = STORE
        /\ cpu.PC + 3 < MEMORY_SIZE
        /\ WordAtPC + 1 >= MEMORY_SIZE
        => status' = "exit1" /\ Untouched]_vars
  /\ [][/\ Stepped
        /\ PcCell(0) = STOREI
        /\ cpu.PC + 1 < MEMORY_SIZE
        /\ PcCell(1) \div 64 \in {A1, A2}
        /\ RegisterValue(cpu, PcCell(1) \div 64) + 1 >= MEMORY_SIZE
        => status' = "exit1" /\ Untouched]_vars
  /\ [][/\ Stepped
        /\ PcCell(0) = OUTIC
        /\ cpu.PC + 1 < MEMORY_SIZE
        /\ OutAddress >= MEMORY_SIZE
        => status' = "exit1" /\ Untouched]_vars

\* C15: an invalid register code in the packed byte of LOADI, STOREI, ADDR or
\* SUBR (a data register in bits 7-6 of LOADI/STOREI, an address register in
\* either field of ADDR/SUBR) ends the run abnormally and changes no register,
\* flag or memory cell.
C15_RegisterCodesFatal ==
  /\ [][/\ Stepped
        /\ PcCell(0) \in {LOADI, STOREI}
        /\ cpu.PC + 1 < MEMORY_SIZE
        /\ PcCell(1) \div 64 \in DataRegisters
        => status' = "exit1" /\ Untouched]_vars
  /\ [][/\ Stepped
        /\ PcCell(0) \in {ADDR, SUBR}
        /\ cpu.PC + 1 < MEMORY_SIZE
        /\ (PcCell(1) \div 64 \in {A1, A2} \/ PcCell(1) % 4 \in {A1, A2})
        => status' = "exit1" /\ Untouched]_vars

LoadFlags(reg, v) ==
  IF reg \in DataRegisters
  THEN /\ cpu'.Z = Flag(v = 0)
       /\ cpu'.N = Flag(Negative(v))
       /\ cpu'.O = cpu.O
  ELSE cpu'.Z = cpu.Z /\ cpu'.N = cpu.N /\ cpu'.O = cpu.O

---------------------------------------------------------------------------
(* sasm: errors and the symbol table *)

\* The mnemonic of source line k after label extraction: the first word when
\* it is reserved or stands alone, the word after it otherwise.
SourceMnemonic(k) ==
  LET text == Clean(source[k])
      first == ScanWord(text)
      rest == SkipSpace(first.rest)
  IN  IF first.val \in Reserved \/ rest = <<>> THEN first.val
      ELSE ScanWord(rest).val

BadLine(k) == Clean(source[k]) /= <<>> /\ SourceMnemonic(k) \notin Reserved

\* C18: a line whose mnemonic, after label extraction, is not one of the 20
\* reserved mnemonics makes first_pass abort with no byte written, however
\* many valid lines precede it; a line that is a label alone is such a line.
C18_UnknownMnemonic ==
  /\ []((\E k \in 1..Len(source) : BadLine(k))
          => /\ pass \in {"first", "exit1"}
             /\ asm_out = <<>>
             /\ emitted = <<>>)
  /\ [][/\ pass = "first"
        /\ i < line_count
        /\ BadLine(i + 1)
        => pass' = "exit1" /\ asm_out' = <<>>]_vars

\* "HALT" then the label "loop" alone: first_pass has counted the first line
\* and aborted on the second.
C18_Witness ==
  /\ source = <<Line0(S_HALT), Line0(T_loop)>>
  /\ pass = "exit1"
  /\ asm_err = "Unknown instruction in first pass"
  /\ counted = <<1>>
  /\ asm_out = <<>>

\* Line k of lines starts with a label.
HasLabel(k) ==
  LET f == ScanLabel(Clean(lines[k]))
  IN  f.count = 2 /\ f.label \notin Reserved

\* C19: the symbol table never holds more than 256 labels; a program with
\* exactly 256 labels is accepted, and the 257th label aborts translation with
\* the table as it was.
C19_TableCapacity ==
  /\ [](Len(symbol_table) <= MAX_LABELS)
  /\ [](source = ManyLabels(MAX_LABELS)
          => /\ pass /= "exit1"
             /\ (pass \in {"second", "done"} => Len(symbol_table) = MAX_LABELS))
  /\ [][/\ pass = "first"
        /\ i < line_count
        /\ HasLabel(i + 1)
        /\ Len(symbol_table) = MAX_LABELS
        => /\ pass' = "exit1"
           /\ asm_err' = "Symbol table overflow."
           /\ symbol_table' = symbol_table]_vars

\* The 257th label has been refused with 256 in the table.
C19_Witness ==
  /\ pass = "exit1"
  /\ asm_err = "Symbol table overflow."
  /\ Len(symbol_table) = MAX_LABELS
  /\ i = MAX_LABELS
  /\ Len(source) = MAX_LABELS + 1

\* C20: after first_pass no two entries of the symbol table carry the same
\* name, whatever the source program.
C20_UniqueNames ==
  pass \in {"second", "done"}
    => \A a, b \in 1..Len(symbol_table) :
         a /= b => symbol_table[a].label /= symbol_table[b].label

---------------------------------------------------------------------------
(* svm: output through an address register, loops, fetches and frames *)

\* C22: OUTIC through an address register holding an in-bounds address a
\* writes the character whose code is the low byte of the big-endian word at a
\* (the byte at a + 1), the word whose decimal value OUTI writes.
C22_OuticLowByte ==
  [][/\ Stepped
     /\ PcCell(0) = OUTIC
     /\ cpu.PC + 1 < MEMORY_SIZE
     /\ OutAddress + 1 < MEMORY_SIZE
     => vm_out' = Append(vm_out, <<"c", Cell(memory, OutAddress + 1)>>)]_vars

\* A jump at PC that is taken and whose target is PC itself.
SelfJump ==
  /\ cpu.PC + 3 < MEMORY_SIZE
  /\ PcCell(0) \in JumpOpcodes
  /\ JumpTaken(PcCell(0))
  /\ WordAtPC = cpu.PC

\* C23: there are programs from which the loop never reaches Halted and never
\* aborts: a jump taken to its own address leaves the CPU, memory and output
\* as they were and the machine running, so the same step is taken for ever.
C23_SelfJumpForever ==
  /\ [][Stepped /\ SelfJump
        => /\ status' = "running"
           /\ cpu' = cpu
           /\ memory' = memory
           /\ vm_out' = vm_out
           /\ vm_err' = vm_err]_vars
  /\ [](status \in {"halted", "exit1", "fault"} => ~SelfJump)

\* JMP 0 at address 0 after every cycle that is followed: still running, in
\* the state it was loaded in.
C23_Witness ==
  /\ status = "running"
  /\ cycles = MaxCycles
  /\ SelfJump
  /\ cpu = ZeroCPU
  /\ Cell(memory, 0) = JMP
  /\ vm_out = <<>>

\* Opcodes whose case reads the byte after the opcode from memory.
ReadsOperandByte ==
  {LOAD, LOADI, STORE, STOREI, ADD, ADDR, SUB, SUBR, OUTR, OUTRC, OUTI, OUTIC}
    \cup JumpOpcodes

\* C24: in every running state the opcode fetch and the operand-byte fetch
\* read cells below 32768: a run that goes past the last instruction of a full
\* memory ends abnormally and fetches nothing at 32768 or beyond.
C24_FetchSafety ==
  /\ [](status = "running" => cpu.PC < MEMORY_SIZE)
  /\ [](status = "running" /\ cpu.PC < MEMORY_SIZE /\ PcCell(0) \in ReadsOperandByte
          => cpu.PC + 1 < MEMORY_SIZE)

Frozen == {STORE, STOREI, OUT, OUTC, OUTR, OUTRC, OUTI, OUTIC} \cup JumpOpcodes

\* The address STORE or STOREI at PC writes to.
StoreAddress ==
  IF PcCell(0) = STORE THEN WordAtPC
  ELSE RegisterValue(cpu, PcCell(1) \div 64)

\* C25: STORE, STOREI, the jumps and the OUT family leave REG1, REG2, ADDR1,
\* ADDR2, Z, N and O as they were; only STORE and STOREI change memory, and
\* only the two bytes of the word they write; only the OUT family adds to the
\* output.
C25_Frame ==
  [][/\ Stepped
     /\ PcCell(0) \in Frozen
     /\ cpu.PC + Length(PcCell(0)) - 1 < MEMORY_SIZE
     => /\ cpu'.REG1 = cpu.REG1 /\ cpu'.REG2 = cpu.REG2
        /\ cpu'.ADDR1 = cpu.ADDR1 /\ cpu'.ADDR2 = cpu.ADDR2
        /\ cpu'.Z = cpu.Z /\ cpu'.N = cpu.N /\ cpu'.O = cpu.O
        /\ IF PcCell(0) \in {STORE, STOREI}
           THEN \A a \in 0..(MEMORY_SIZE - 1) :
                  Cell(memory', a) /= Cell(memory, a)
                    => a \in {StoreAddress, StoreAddress + 1}
           ELSE memory' = memory
        /\ IF PcCell(0) \in {OUT, OUTC, OUTR, OUTRC, OUTI, OUTIC}
           THEN vm_out' = vm_out \/ SubSeq(vm_out', 1, Len(vm_out)) = vm_out
           ELSE vm_out' = vm_out]_vars

\* C26: ADDR1 and ADDR2 change only by a LOAD or LOADI whose destination code
\* names them; ADD, SUB, ADDR and SUBR never change them, and an ADD or SUB
\* with an address-register code changes no register and no flag.
C26_AddressRegisters ==
  /\ [][/\ Stepped
        /\ cpu.PC + 1 < MEMORY_SIZE
        /\ cpu'.ADDR1 /= cpu.ADDR1
        => \/ PcCell(0) = LOAD /\ PcCell(1) = A1
           \/ PcCell(0) = LOADI /\ PcCell(1) % 4 = A1]_vars
  /\ [][/\ Stepped
        /\ cpu.PC + 1 < MEMORY_SIZE
        /\ cpu'.ADDR2 /= cpu.ADDR2
        => \/ PcCell(0) = LOAD /\ PcCell(1) = A2
           \/ PcCell(0) = LOADI /\ PcCell(1) % 4 = A2]_vars
  /\ [][/\ Stepped
        /\ PcCell(0) \in {ADD, SUB}
        /\ cpu.PC + 3 < MEMORY_SIZE
        /\ PcCell(1) \in {A1, A2}
        => /\ status' = "running"
           /\ cpu' = [cpu EXCEPT !.PC = cpu.PC + 4]]_vars

---------------------------------------------------------------------------
(* sasm: what is written when a pass aborts *)

\* The encoding of line k as second_pass reads it: nothing for a blank line.
LineBytes(k) ==
  LET text == Clean(lines[k])
      f3 == ScanTwoOperands(text)
      f2 == ScanOneOperand(text)
      f1 == ScanNoOperand(text)
  IN  IF text = <<>> THEN <<>>
      ELSE IF f3.count = 3
      THEN EncodeTwoOperands(symbol_table, f3.instruction, f3.operand1,
                             f3.operand2).bytes
      ELSE IF f2.count = 2
      THEN EncodeOneOperand(symbol_table, f2.instruction, f2.operand1).bytes
      ELSE EncodeNoOperand(f1.count, f1.instruction).bytes

\* The encodings of lines 1..n one after the other.
RECURSIVE BytesUpTo(_)
BytesUpTo(n) == IF n = 0 THEN <<>> ELSE BytesUpTo(n - 1) \o LineBytes(n)

\* C27: when second_pass aborts on line k the bytes written are exactly the
\* encodings of the lines before k, one after the other (a blank line gives
\* none), with no byte of line k or of a later line; when first_pass aborts
\* nothing is written.
C27_PartialOutput ==
  /\ [][pass = "second" /\ pass' = "exit1"
          => /\ asm_out' = asm_out
             /\ asm_out' = BytesUpTo(i)
             /\ i' = i
             /\ Len(emitted') = i]_vars
  /\ [][pass = "first" /\ pass' = "exit1" => asm_out' = <<>>]_vars

\* "LOAD R1, 5" written, then "LOAD x, 5" refused for its register.
C27_Witness ==
  /\ source = <<Line2(S_LOAD, S_R1, T_5), Line2(S_LOAD, T_x, T_5)>>
  /\ pass = "exit1"
  /\ asm_err = "Invalid register"
  /\ i = 1
  /\ asm_out = <<LOAD, R1, 0, 5>>

---------------------------------------------------------------------------
(* sasm and svm together: properties *)

\* svm has loaded what sasm wrote and has run nothing yet.
JustLoaded == status = "running" /\ cycles = 0

\* C21: for every pair of register codes (d first operand, s second) the
\* packed byte the assembler writes, (s << 6) | (d & 3), is decoded by the
\* interpreter to reg1 = d and reg2 = s, and the two bytes write16 writes for a
\* 16-bit value v, high byte first, are read back by fetchImmediate as v.
C21_EncodeDecode ==
  /\ [](\A mn \in TwoRegisterMnemonics, d \in RegisterNames, s_ \in RegisterNames :
          JustLoaded /\ source[1] = Line2(mn, d[1], s_[1])
            => /\ Cell(memory, 1) = s_[2] * 64 + d[2]
               /\ Reg1Of(Cell(memory, 1)) = d[2]
               /\ Reg2Of(Cell(memory, 1)) = s_[2])
  /\ [](\A r \in RegisterNames, t \in WordTokens :
          JustLoaded /\ source[1] = Line2(S_LOAD, r[1], t[1])
            => /\ Cell(memory, 2) = t[2] \div 256
               /\ Cell(memory, 3) = t[2] % 256
               /\ fetchImmediate(memory, 2) = t[2])
  /\ [][\A r \in RegisterNames, t \in WordTokens :
          JustLoaded /\ Stepped /\ source[1] = Line2(S_LOAD, r[1], t[1])
            => RegisterValue(cpu', r[2]) = t[2]]_vars

\* "LOAD R1, 4660", "ADDR R2, R1", "OUTR R2", "HALT" assembled and run: the
\* value written is 4660.
C21_Witness ==
  /\ source[1] = Line2(S_LOAD, S_R1, T_4660)
  /\ source[2] = Line2(S_ADDR, S_R2, S_R1)
  /\ asm_out = <<LOAD, R1, 18, 52, ADDR, 64, OUTR, R2, HALT>>
  /\ status = "halted"
  /\ vm_out = <<<<"d", 4660>>>>

=============================================================================
